---- MODULE Spec2Model ----
(***************************************************************************)
(* Model of the aggregation / reconciliation core of the analytics         *)
(* dashboard:                                                              *)
(*   - get_multi_repo_analytics (src/app.py): the multi-repository pull    *)
(*     request aggregator;                                                 *)
(*   - the Azure DevOps request handlers that re-point the shared          *)
(*     AzureDevOpsAnalytics client (src/app.py, azuredevops_analytics.py); *)
(*   - the repository identifier resolver (azuredevops_analytics.py);      *)
(*   - relation classification and URL extraction                          *)
(*     (azuredevops_analytics.py).                                         *)
(* A Python string is a sequence of one-character strings, so that split,  *)
(* startswith, `in`, lower, slicing and the regular expressions of the     *)
(* source are computed character by character.                             *)
(***************************************************************************)
EXTENDS Integers, Sequences, FiniteSets, TLC

VARIABLES
    \* get_multi_repo_analytics
    repos,        \* the argument `repos`
    fetched,      \* what get_pull_request_analytics did for each entry so far
    idx,          \* position of the for loop over repos
    combined,     \* combined_data
    acc,          \* total_additions .. total_prs_for_avg
    apc,          \* "idle" | "loop" | "done" | "tabled"
    table,        \* the summary table made from the result
    \* the Azure DevOps request handlers
    client,       \* the module-level azuredevops_analytics instance
    req,          \* per request: its parameters, its position, its vendor calls
    \* _get_resolved_repositories
    creds,          \* pat_token and organization are set
    involved,       \* the argument involved_repositories
    breakdown,      \* the argument repository_breakdown
    link_counts,    \* PR links of the pass per entry of involved
    ridx,           \* position of the for loop over involved_repositories
    lookups,        \* what the repository-metadata lookup did for each path
    resolved_repos, \* the list being returned
    rpc,            \* "idle" | "loop" | "done"
    \* _extract_pr_links
    relations,      \* the work item's raw relations
    lidx,           \* position of the for loop over relations
    pr_links,       \* the list being returned
    detail_fetches, \* the detail requests issued, with their outcome
    lpc,            \* "idle" | "loop" | "done"
    \* the final sort of recent_prs in get_multi_repo_analytics
    recent_in,      \* combined_data['recent_prs'] before the sort
    recent_out,     \* combined_data['recent_prs'] after it
    spc,            \* "idle" | "sort" | "done"
    \* _get_work_items_with_relations_batch
    work_item_ids,  \* the argument work_item_ids
    failing,        \* the ids whose relation fetch fails
    bstart,         \* i of `for i in range(0, len(work_item_ids), batch_size)`
    bpos,           \* position of the inner loop in batch_ids
    visit_log,      \* the ids handed to _get_work_item_relations, with their batch
    pauses,         \* calls of time.sleep
    all_pr_links,   \* the list being returned
    bpc,            \* "idle" | "loop" | "done"
    \* get_streamlined_analytics and get_analytics_summary over one set of
    \* work items
    item_relations, \* per work item, its relations
    details_ok,     \* whether _get_work_item_details answers
    associated,     \* per work item, associated_prs in get_streamlined_analytics
    aidx,           \* position of `for item in work_items`
    tally,          \* pr_count, commit_count, repositories, all_prs
    stream_data,    \* 'data' of the result of get_streamlined_analytics
    summary_data,   \* 'data' of the result of get_analytics_summary
    ppc,            \* "idle" | "fetched" | "loop" | "streamlined" | "done"
    \* the requests the server has answered one after the other
    azuredevops_analytics,  \* the fields of the module-level client
    served,         \* the requests answered so far, oldest first
    \* ContextStorage: the storage lock and the threads calling the storage
    lock,           \* 0 when free, otherwise the thread that holds self.lock
    callers         \* per thread: the method it is in, where, calls made, files written

aggVars == <<repos, fetched, idx, combined, acc, apc, table>>

reqVars == <<client, req>>

resVars == <<creds, involved, breakdown, link_counts, ridx, lookups, resolved_repos, rpc>>

linkVars == <<relations, lidx, pr_links, detail_fetches, lpc>>

sortVars == <<recent_in, recent_out, spc>>

batchVars == <<work_item_ids, failing, bstart, bpos, visit_log, pauses, all_pr_links, bpc>>

lockVars == <<lock, callers>>

serveVars == <<azuredevops_analytics, served>>

passVars == <<item_relations, details_ok, associated, aidx, tally, stream_data, summary_data, ppc>>

vars == <<aggVars, reqVars, resVars, linkVars, sortVars, batchVars, passVars, serveVars, lockVars>>

\* the variables of the other components, which a component leaves alone
notAgg == <<reqVars, resVars, linkVars, sortVars, batchVars, passVars, serveVars, lockVars>>
notReq == <<aggVars, resVars, linkVars, sortVars, batchVars, passVars, serveVars, lockVars>>
notRes == <<aggVars, reqVars, linkVars, sortVars, batchVars, passVars, serveVars, lockVars>>
notLink == <<aggVars, reqVars, resVars, sortVars, batchVars, passVars, serveVars, lockVars>>
notSort == <<aggVars, reqVars, resVars, linkVars, batchVars, passVars, serveVars, lockVars>>
notBatch == <<aggVars, reqVars, resVars, linkVars, sortVars, passVars, serveVars, lockVars>>
notPass == <<aggVars, reqVars, resVars, linkVars, sortVars, batchVars, serveVars, lockVars>>
notServe == <<aggVars, reqVars, resVars, linkVars, sortVars, batchVars, passVars, lockVars>>
notLock == <<aggVars, reqVars, resVars, linkVars, sortVars, batchVars, passVars, serveVars>>

----------------------------------------------------------------------------
(* Python string operations on sequences of characters                     *)

Min(a, b) == IF a < b THEN a ELSE b

\* s[:n]
Take(s, n) == SubSeq(s, 1, Min(n, Len(s)))

\* s[n:]
Drop(s, n) == SubSeq(s, n + 1, Len(s))

\* s.startswith(p)
StartsWith(s, p) == Len(p) <= Len(s) /\ \A j \in 1 .. Len(p) : s[j] = p[j]

\* sub occurs in s at position i
OccursAt(s, sub, i) == \A j \in 1 .. Len(sub) : s[i + j - 1] = sub[j]

\* least j >= i at which sub occurs in s, 0 when there is none
FindFrom(s, sub, i) ==
    LET hits == { k \in i .. (Len(s) - Len(sub) + 1) : OccursAt(s, sub, k) }
    IN  IF hits = {} THEN 0 ELSE CHOOSE k \in hits : \A j \in hits : k <= j

\* s.find(sub) + 1
Find(s, sub) == FindFrom(s, sub, 1)

\* sub in s
Contains(s, sub) == \E k \in 1 .. (Len(s) - Len(sub) + 1) : OccursAt(s, sub, k)

\* s.split(sep)
RECURSIVE Split(_, _)
Split(s, sep) ==
    LET k == Find(s, sep)
    IN  IF k = 0 THEN <<s>>
        ELSE <<SubSeq(s, 1, k - 1)>> \o Split(Drop(s, k + Len(sep) - 1), sep)

----------------------------------------------------------------------------
(* Bounds and inputs of the aggregator                                     *)

\* longest repository list handed to get_multi_repo_analytics
MaxRepos == 2

\* most pull requests one repository returns inside the window
MaxPRs == 2

\* entries of `repos`: two well-formed names, one with no '/', one with two
\* '/', one with an empty segment
RepoNames ==
    { <<"a", "/", "b">>, <<"c", "/", "d">>, <<"a", "b">>,
      <<"a", "/", "b", "/", "c">>, <<"a", "/">> }

\* pull requests the vendor can return for a repository (newest first)
PRPool ==
    << [number |-> 1, author |-> "alice", created_at |-> 2, day |-> 2,
        state |-> "open", merged |-> FALSE],
       [number |-> 2, author |-> "bob", created_at |-> 1, day |-> 1,
        state |-> "closed", merged |-> TRUE],
       [number |-> 3, author |-> "alice", created_at |-> 1, day |-> 1,
        state |-> "closed", merged |-> FALSE] >>

\* per-repository averages <<additions, deletions, commits, changed_files>>
AvgProfiles == { <<0, 0, 0, 0>>, <<6, 4, 2, 12>> }

\* the sub-lists of PRPool of at most MaxPRs entries, in the pool's order
RECURSIVE Pick(_, _)
Pick(S, i) ==
    IF i > Len(PRPool) THEN <<>>
    ELSE (IF i \in S THEN <<PRPool[i]>> ELSE <<>>) \o Pick(S, i + 1)

PRLists ==
    { Pick(S, 1) : S \in { T \in SUBSET (1 .. Len(PRPool)) : Cardinality(T) <= MaxPRs } }

----------------------------------------------------------------------------
(* get_pull_request_analytics: the per-repository summary                  *)

\* len([pr for pr in recent_prs if pr['state'] == 'open'])
CountOpen(prs) == Cardinality({ i \in 1 .. Len(prs) : prs[i].state = "open" })

\* len([pr for pr in recent_prs if pr['state'] == 'closed'])
CountClosed(prs) == Cardinality({ i \in 1 .. Len(prs) : prs[i].state = "closed" })

\* len([pr for pr in recent_prs if pr['merged_at'] is not None])
CountMerged(prs) == Cardinality({ i \in 1 .. Len(prs) : prs[i].merged })

\* "Group by author"
ByAuthor(prs) ==
    [k \in { prs[i].author : i \in 1 .. Len(prs) } |->
        Cardinality({ i \in 1 .. Len(prs) : prs[i].author = k })]

\* "Group by day"
ByDay(prs) ==
    [k \in { prs[i].day : i \in 1 .. Len(prs) } |->
        Cardinality({ i \in 1 .. Len(prs) : prs[i].day = k })]

\* recent_prs[:10] of one repository
RepoRecentCap == 10

\* the `analytics` dictionary built from the pull requests of the window;
\* the four averages are inputs (av)
RepoDataOf(prs, av) ==
    [ total_prs |-> Len(prs),
      open_prs |-> CountOpen(prs),
      closed_prs |-> CountClosed(prs),
      merged_prs |-> CountMerged(prs),
      average_additions |-> av[1],
      average_deletions |-> av[2],
      average_commits |-> av[3],
      average_changed_files |-> av[4],
      prs_by_author |-> ByAuthor(prs),
      prs_by_day |-> ByDay(prs),
      recent_prs |-> Take(prs, RepoRecentCap) ]

NoData == [ total_prs |-> 0 ]

\* what the fetch of one repository can do: the vendor call fails
\* (status error), something raises inside the loop body, or a summary
\* comes back with status success
VendorOutcomes ==
    { [status |-> "error", data |-> NoData], [status |-> "raise", data |-> NoData] }
    \cup { [status |-> "success", data |-> RepoDataOf(prs, av)] :
             prs \in PRLists, av \in AvgProfiles }

\* a plausible slip: the vendor is called whatever owner and repo_name are
FetchOutcomesWithoutRefusal(owner, repo_name) == VendorOutcomes

\* get_pull_request_analytics for owner/repo_name: an empty owner or name
\* is refused before any vendor call
FetchOutcomes(owner, repo_name) ==
    IF owner = <<>> \/ repo_name = <<>>
    THEN { [status |-> "error", data |-> NoData] }
    ELSE VendorOutcomes

Skipped == [status |-> "skipped", data |-> NoData]

----------------------------------------------------------------------------
(* get_multi_repo_analytics                                                *)

RECURSIVE Gcd(_, _)
Gcd(a, b) == IF b = 0 THEN a ELSE Gcd(b, a % b)

\* a / b as an exact fraction in lowest terms (b > 0)
Divide(a, b) ==
    LET g == Gcd(a, b) IN [num |-> a \div g, den |-> b \div g]

Zero == [num |-> 0, den |-> 1]

EmptyMap == [k \in {} |-> 0]

CombinedInit ==
    [ total_prs |-> 0, open_prs |-> 0, closed_prs |-> 0, merged_prs |-> 0,
      average_additions |-> Zero, average_deletions |-> Zero,
      average_commits |-> Zero, average_changed_files |-> Zero,
      prs_by_author |-> EmptyMap, prs_by_day |-> EmptyMap,
      recent_prs |-> <<>>, repositories |-> EmptyMap ]

AccInit ==
    [ total_additions |-> 0, total_deletions |-> 0, total_commits |-> 0,
      total_changed_files |-> 0, total_prs_for_avg |-> 0 ]

\* "Combine basic stats"
CombineStats(c, d) ==
    [c EXCEPT !.total_prs = @ + d.total_prs,
              !.open_prs = @ + d.open_prs,
              !.closed_prs = @ + d.closed_prs,
              !.merged_prs = @ + d.merged_prs]

\* a plausible slip: every repository counts once, whatever its size
AccumulateUnweighted(a, d) ==
    IF d.total_prs > 0
    THEN [ total_additions |-> a.total_additions + d.average_additions,
           total_deletions |-> a.total_deletions + d.average_deletions,
           total_commits |-> a.total_commits + d.average_commits,
           total_changed_files |-> a.total_changed_files + d.average_changed_files,
           total_prs_for_avg |-> a.total_prs_for_avg + 1 ]
    ELSE a

\* "Accumulate for averages"
AccumulateAverages(a, d) ==
    IF d.total_prs > 0
    THEN [ total_additions |-> a.total_additions + d.average_additions * d.total_prs,
           total_deletions |-> a.total_deletions + d.average_deletions * d.total_prs,
           total_commits |-> a.total_commits + d.average_commits * d.total_prs,
           total_changed_files |->
               a.total_changed_files + d.average_changed_files * d.total_prs,
           total_prs_for_avg |-> a.total_prs_for_avg + d.total_prs ]
    ELSE a

\* a plausible slip: dict.update, the later count replaces the earlier one
MergeCountsByUpdate(m, other) ==
    [k \in DOMAIN m \cup DOMAIN other |->
        IF k \in DOMAIN other THEN other[k] ELSE m[k]]

\* "Combine authors" / "Combine by day": add count per key
MergeCounts(m, other) ==
    [k \in DOMAIN m \cup DOMAIN other |->
        (IF k \in DOMAIN m THEN m[k] ELSE 0)
        + (IF k \in DOMAIN other THEN other[k] ELSE 0)]

\* recent_prs[:5] of one repository
PerRepoRecentCap == 5

\* "Add recent PRs (with repo info)"
TagRecent(prs, repo) ==
    LET top == Take(prs, PerRepoRecentCap)
    IN  [i \in 1 .. Len(top) |->
            [number |-> top[i].number, author |-> top[i].author,
             created_at |-> top[i].created_at, day |-> top[i].day,
             state |-> top[i].state, merged |-> top[i].merged,
             repository |-> repo]]

\* combined_data['repositories'][repo] = {...}
StoreRepoStats(m, repo, d) ==
    [k \in DOMAIN m \cup {repo} |->
        IF k = repo
        THEN [total_prs |-> d.total_prs, open_prs |-> d.open_prs,
              closed_prs |-> d.closed_prs, merged_prs |-> d.merged_prs]
        ELSE m[k]]

\* a plausible slip: an entry whose fetch did not succeed still gets a
\* (zero) row in the per-repository breakdown
ProcessOneRowForFailure(st, repo, outcome) ==
    IF outcome.status = "skipped" THEN st
    ELSE IF outcome.status = "success"
    THEN LET d == outcome.data
             c1 == CombineStats(st.combined, d)
         IN  [ combined |->
                 [c1 EXCEPT !.prs_by_author = MergeCounts(@, d.prs_by_author),
                            !.prs_by_day = MergeCounts(@, d.prs_by_day),
                            !.recent_prs = @ \o TagRecent(d.recent_prs, repo),
                            !.repositories = StoreRepoStats(@, repo, d)],
               acc |-> AccumulateAverages(st.acc, d) ]
    ELSE [st EXCEPT !.combined.repositories =
              StoreRepoStats(@, repo,
                  [total_prs |-> 0, open_prs |-> 0, closed_prs |-> 0, merged_prs |-> 0])]

\* the body of `for repo in repos` for one entry, given what the fetch did
ProcessOne(st, repo, outcome) ==
    IF outcome.status = "success"
    THEN LET d == outcome.data
             c1 == CombineStats(st.combined, d)
         IN  [ combined |->
                 [c1 EXCEPT !.prs_by_author = MergeCounts(@, d.prs_by_author),
                            !.prs_by_day = MergeCounts(@, d.prs_by_day),
                            !.recent_prs = @ \o TagRecent(d.recent_prs, repo),
                            !.repositories = StoreRepoStats(@, repo, d)],
               acc |-> AccumulateAverages(st.acc, d) ]
    ELSE st

\* s with x inserted after every entry whose created_at is >= x's
\* a plausible slip: a new entry goes before the entries of the same date
RECURSIVE InsertDescBeforeEquals(_, _)
InsertDescBeforeEquals(s, x) ==
    IF s = <<>> THEN <<x>>
    ELSE IF Head(s).created_at > x.created_at
         THEN <<Head(s)>> \o InsertDescBeforeEquals(Tail(s), x)
         ELSE <<x>> \o s

RECURSIVE InsertDesc(_, _)
InsertDesc(s, x) ==
    IF s = <<>> THEN <<x>>
    ELSE IF Head(s).created_at >= x.created_at
         THEN <<Head(s)>> \o InsertDesc(Tail(s), x)
         ELSE <<x>> \o s

\* sorted(s, key=created_at, reverse=True): stable, newest first
RECURSIVE SortRecent(_)
SortRecent(s) ==
    IF s = <<>> THEN <<>>
    ELSE InsertDesc(SortRecent(SubSeq(s, 1, Len(s) - 1)), s[Len(s)])

\* the 20 most recent of the combined list
GlobalRecentCap == 20

\* "Calculate combined averages", sort and truncate recent_prs
Finish(st) ==
    LET a == st.acc
        c == st.combined
        c1 == IF a.total_prs_for_avg > 0
              THEN [c EXCEPT
                      !.average_additions =
                          Divide(a.total_additions, a.total_prs_for_avg),
                      !.average_deletions =
                          Divide(a.total_deletions, a.total_prs_for_avg),
                      !.average_commits =
                          Divide(a.total_commits, a.total_prs_for_avg),
                      !.average_changed_files =
                          Divide(a.total_changed_files, a.total_prs_for_avg)]
              ELSE c
    IN  [c1 EXCEPT !.recent_prs = Take(SortRecent(@), GlobalRecentCap)]

\* the summary table before create_repository_summary_table has run
NoTable == [type |-> "none", headers |-> <<>>, rows |-> <<>>]

StrongOpen ==
    <<"<", "s", "t", "r", "o", "n", "g", ">">>

StrongClose ==
    <<"<", "/", "s", "t", "r", "o", "n", "g", ">">>

TotalWord ==
    <<"T", "O", "T", "A", "L">>

ZeroPercent ==
    <<"0", "%">>

ZeroDecimalPercent ==
    <<"0", ".", "0", "%">>

DecimalDigits ==
    <<"0", "1", "2", "3", "4", "5", "6", "7", "8", "9">>

\* str(n) for n >= 0
RECURSIVE ToStr(_)
ToStr(n) ==
    IF n < 10 THEN <<DecimalDigits[n + 1]>>
    ELSE ToStr(n \div 10) \o <<DecimalDigits[(n % 10) + 1]>>

\* f'<strong>{x}</strong>'
Strong(x) == StrongOpen \o x \o StrongClose

\* a plausible slip: the format is applied to a zero total as well
MergeRateZeroAsDecimal(merged_prs, total_prs) ==
    IF total_prs > 0
    THEN LET tenths == (2000 * merged_prs + total_prs) \div (2 * total_prs)
         IN  ToStr(tenths \div 10) \o <<".">> \o ToStr(tenths % 10) \o <<"%">>
    ELSE ZeroDecimalPercent

\* f"{(merged_prs / total_prs * 100):.1f}%" if total_prs > 0 else "0%";
\* the rate is rounded to the nearest tenth (no total below 16 gives a tie)
MergeRate(merged_prs, total_prs) ==
    IF total_prs > 0
    THEN LET tenths == (2000 * merged_prs + total_prs) \div (2 * total_prs)
         IN  ToStr(tenths \div 10) \o <<".">> \o ToStr(tenths % 10) \o <<"%">>
    ELSE ZeroPercent

\* repositories_data.get(repo, {}) with its .get(field, 0)
RepoStats(data, repo) ==
    IF repo \in DOMAIN data.repositories THEN data.repositories[repo]
    ELSE [total_prs |-> 0, open_prs |-> 0, closed_prs |-> 0, merged_prs |-> 0]

\* the row of one entry of repos
RepoRow(data, repo) ==
    LET repo_data == RepoStats(data, repo)
    IN  << repo, ToStr(repo_data.total_prs), ToStr(repo_data.open_prs),
           ToStr(repo_data.closed_prs), ToStr(repo_data.merged_prs),
           MergeRate(repo_data.merged_prs, repo_data.total_prs) >>

\* the trailing row of the grand totals
TotalRow(data) ==
    << Strong(TotalWord), Strong(ToStr(data.total_prs)), Strong(ToStr(data.open_prs)),
       Strong(ToStr(data.closed_prs)), Strong(ToStr(data.merged_prs)),
       Strong(MergeRate(data.merged_prs, data.total_prs)) >>

TableHeaders == <<"Repository", "Total PRs", "Open", "Closed", "Merged", "Merge Rate">>

\* a plausible slip: rows are made for the repositories of the breakdown only
SummaryTableOfBreakdown(data, repos_arg) ==
    [type |-> "table",
     headers |-> TableHeaders,
     rows |-> [i \in 1 .. Len(SelectSeq(repos_arg, LAMBDA r : r \in DOMAIN data.repositories)) |->
                  RepoRow(data, SelectSeq(repos_arg, LAMBDA r : r \in DOMAIN data.repositories)[i])]
              \o <<TotalRow(data)>>]

\* create_repository_summary_table
SummaryTable(data, repos_arg) ==
    [type |-> "table",
     headers |-> TableHeaders,
     rows |-> [i \in 1 .. Len(repos_arg) |-> RepoRow(data, repos_arg[i])]
              \o <<TotalRow(data)>>]

\* the state after the construction of combined_data and the accumulators
InitAgg ==
    /\ repos \in UNION { [1 .. n -> RepoNames] : n \in 0 .. MaxRepos }
    /\ fetched = <<>>
    /\ idx = 1
    /\ combined = CombinedInit
    /\ acc = AccInit
    /\ apc = "loop"
    /\ table = NoTable

IdleAgg ==
    /\ repos = <<>>
    /\ fetched = <<>>
    /\ idx = 1
    /\ combined = CombinedInit
    /\ acc = AccInit
    /\ apc = "idle"
    /\ table = NoTable

\* one iteration whose entry does not split into two parts: `continue`
SkipMalformed ==
    /\ apc = "loop"
    /\ idx <= Len(repos)
    /\ Len(Split(repos[idx], <<"/">>)) # 2
    /\ fetched' = Append(fetched, Skipped)
    /\ idx' = idx + 1
    /\ UNCHANGED <<repos, combined, acc, apc, table>>
    /\ UNCHANGED notAgg

\* one iteration whose entry splits into owner and repo_name: the fetch and
\* what the loop body does with its result
ProcessRepo ==
    /\ apc = "loop"
    /\ idx <= Len(repos)
    /\ LET parts == Split(repos[idx], <<"/">>)
       IN  /\ Len(parts) = 2
           /\ \E outcome \in FetchOutcomes(parts[1], parts[2]) :
                LET st == ProcessOne([combined |-> combined, acc |-> acc],
                                     repos[idx], outcome)
                IN  /\ combined' = st.combined
                    /\ acc' = st.acc
                    /\ fetched' = Append(fetched, outcome)
    /\ idx' = idx + 1
    /\ UNCHANGED <<repos, apc, table>>
    /\ UNCHANGED notAgg

\* after the loop: averages, sort, truncate, return
Finalize ==
    /\ apc = "loop"
    /\ idx > Len(repos)
    /\ combined' = Finish([combined |-> combined, acc |-> acc])
    /\ apc' = "done"
    /\ UNCHANGED <<repos, fetched, idx, acc, table>>
    /\ UNCHANGED notAgg

\* return {'status': 'success', 'data': combined_data}
AnalyticsResult == [status |-> "success", data |-> combined]

\* get_multi_repo_chart_data with chart_type 'summary': the summary table of
\* a result whose status is success
CreateSummaryTable ==
    /\ apc = "done"
    /\ AnalyticsResult.status = "success"
    /\ table' = SummaryTable(AnalyticsResult.data, repos)
    /\ apc' = "tabled"
    /\ UNCHANGED <<repos, fetched, idx, combined, acc>>
    /\ UNCHANGED notAgg

NextAgg == SkipMalformed \/ ProcessRepo \/ Finalize \/ CreateSummaryTable

----------------------------------------------------------------------------
(* /api/azuredevops/analytics: get_azuredevops_analytics and the calls of  *)
(* get_streamlined_analytics on the shared client                          *)

\* requests served at the same time (the server handles each request on
\* its own thread)
NumRequests == 2

Requests == 1 .. NumRequests

\* query parameters of a request: the empty string is a missing parameter
ParamSets ==
    { [org |-> "", project |-> "p1", area_path |-> ""],
      [org |-> "o1", project |-> "p1", area_path |-> "a1"],
      [org |-> "o2", project |-> "p2", area_path |-> ""] }

\* AzureDevOpsAnalytics.__init__: the fields come from Config
ClientInit ==
    [organization |-> "your-ado-org", project |-> "YourProject", area_path |-> ""]

NoCall == [org |-> "", project |-> "", area_path |-> "", team_project |-> ""]

\* what get_work_items returns: None when the WIQL query (or the fetch of
\* the basic details that follows it) answered with a status other than 200
\* or raised, the empty list when the query found no work item, the work
\* items otherwise
WorkItemOutcomes == {"None", "empty", "items"}

NotFetched == "not fetched"

NoResult == [status |-> "none", total_work_items |-> 0]

\* get_streamlined_analytics from "if not work_items:" on: None and the empty
\* list both take the early return; a fetch with work items brings one
StreamlinedResult(work_items) ==
    IF work_items \in {"None", "empty"}
    THEN [status |-> "success", total_work_items |-> 0]
    ELSE [status |-> "success", total_work_items |-> 1]

InitReq ==
    /\ client = ClientInit
    /\ req \in [Requests ->
                 { [params |-> p, pc |-> "start", building |-> NoCall,
                    calls |-> <<>>, status |-> 0,
                    work_items |-> NotFetched, result |-> NoResult] : p \in ParamSets }]

IdleReq ==
    /\ client = ClientInit
    /\ req = [r \in Requests |->
                [params |-> [org |-> "", project |-> "", area_path |-> ""],
                 pc |-> "idle", building |-> NoCall, calls |-> <<>>, status |-> 0,
                 work_items |-> NotFetched, result |-> NoResult]]

\* "Validate required parameters"
Validate(r) ==
    /\ req[r].pc = "start"
    /\ IF req[r].params.org = "" \/ req[r].params.project = ""
       THEN req' = [req EXCEPT ![r].pc = "done", ![r].status = 400,
                               ![r].result = [status |-> "error", total_work_items |-> 0]]
       ELSE req' = [req EXCEPT ![r].pc = "set_org"]
    /\ UNCHANGED <<client, notReq>>

\* azuredevops_analytics.organization = org
SetOrganization(r) ==
    /\ req[r].pc = "set_org"
    /\ client' = [client EXCEPT !.organization = req[r].params.org]
    /\ req' = [req EXCEPT ![r].pc = "set_project"]
    /\ UNCHANGED notReq

\* azuredevops_analytics.project = project
SetProject(r) ==
    /\ req[r].pc = "set_project"
    /\ client' = [client EXCEPT !.project = req[r].params.project]
    /\ req' = [req EXCEPT ![r].pc = "set_area"]
    /\ UNCHANGED notReq

\* azuredevops_analytics.area_path = area_path
SetAreaPath(r) ==
    /\ req[r].pc = "set_area"
    /\ client' = [client EXCEPT !.area_path = req[r].params.area_path]
    /\ req' = [req EXCEPT ![r].pc = "wiql_org"]
    /\ UNCHANGED notReq

\* _get_base_url reads self.organization ...
ReadOrganization(r) ==
    /\ req[r].pc \in {"wiql_org", "details_org"}
    /\ req' = [req EXCEPT ![r].building =
                              [NoCall EXCEPT !.org = client.organization],
                          ![r].pc = IF @ = "wiql_org" THEN "wiql_project"
                                    ELSE "details_project"]
    /\ UNCHANGED <<client, notReq>>

\* ... and self.project
ReadProject(r) ==
    /\ req[r].pc \in {"wiql_project", "details_project"}
    /\ req' = [req EXCEPT ![r].building.project = client.project,
                          ![r].pc = IF @ = "wiql_project" THEN "wiql_area"
                                    ELSE "details_call"]
    /\ UNCHANGED <<client, notReq>>

\* get_work_items builds the area filter from self.area_path
ReadAreaPath(r) ==
    /\ req[r].pc = "wiql_area"
    /\ req' = [req EXCEPT ![r].building.area_path = client.area_path,
                          ![r].pc = "wiql_team"]
    /\ UNCHANGED <<client, notReq>>

\* get_work_items puts self.project into the WIQL text
ReadTeamProject(r) ==
    /\ req[r].pc = "wiql_team"
    /\ req' = [req EXCEPT ![r].building.team_project = client.project,
                          ![r].pc = "wiql_call"]
    /\ UNCHANGED <<client, notReq>>

\* requests.post of the WIQL query and the return of get_work_items; with
\* no work item (None or the empty list) the handler answers at once,
\* otherwise get_streamlined_analytics goes on to the details
IssueWiql(r) ==
    /\ req[r].pc = "wiql_call"
    /\ \E outcome \in WorkItemOutcomes :
          req' = [req EXCEPT
                    ![r].work_items = outcome,
                    ![r].calls = Append(@, [kind |-> "wiql", org |-> req[r].building.org,
                                            project |-> req[r].building.project,
                                            area_path |-> req[r].building.area_path,
                                            team_project |-> req[r].building.team_project]),
                    ![r].pc = IF outcome \in {"None", "empty"} THEN "respond"
                              ELSE "details_org"]
    /\ UNCHANGED <<client, notReq>>

\* requests.get of the work item details under a base URL read again
IssueDetails(r) ==
    /\ req[r].pc = "details_call"
    /\ req' = [req EXCEPT
                 ![r].calls = Append(@, [kind |-> "details", org |-> req[r].building.org,
                                         project |-> req[r].building.project,
                                         area_path |-> "", team_project |-> ""]),
                 ![r].pc = "respond"]
    /\ UNCHANGED <<client, notReq>>

\* return jsonify(result)
Respond(r) ==
    /\ req[r].pc = "respond"
    /\ req' = [req EXCEPT ![r].pc = "done", ![r].status = 200,
                          ![r].result = StreamlinedResult(req[r].work_items)]
    /\ UNCHANGED <<client, notReq>>

NextReq ==
    \/ \E r \in Requests : Validate(r)
    \/ \E r \in Requests : SetOrganization(r)
    \/ \E r \in Requests : SetProject(r)
    \/ \E r \in Requests : SetAreaPath(r)
    \/ \E r \in Requests : ReadOrganization(r)
    \/ \E r \in Requests : ReadProject(r)
    \/ \E r \in Requests : ReadAreaPath(r)
    \/ \E r \in Requests : ReadTeamProject(r)
    \/ \E r \in Requests : IssueWiql(r)
    \/ \E r \in Requests : IssueDetails(r)
    \/ \E r \in Requests : Respond(r)

----------------------------------------------------------------------------
(* The repository identifier resolver: _resolve_repository_name,           *)
(* _try_github_resolution and _get_resolved_repositories                   *)

KnownId1 ==
    <<"2", "0", "6", "c", "d", "e", "e", "d", "-", "c", "c", "d", "e", "-",
      "4", "d", "f", "1", "-", "a", "2", "0", "3", "-", "0", "9", "2", "a",
      "2", "5", "2", "2", "6", "6", "2", "f">>

KnownId2 ==
    <<"0", "d", "8", "3", "6", "d", "e", "7", "-", "d", "f", "e", "e", "-",
      "4", "6", "c", "2", "-", "a", "3", "4", "0", "-", "a", "3", "9", "d",
      "8", "4", "1", "8", "9", "4", "0", "2">>

KnownId3 ==
    <<"2", "c", "2", "7", "2", "6", "b", "0", "-", "5", "0", "b", "d", "-",
      "4", "4", "2", "5", "-", "8", "9", "a", "d", "-", "a", "1", "3", "6",
      "1", "f", "f", "a", "3", "4", "6", "7">>

KnownName1 ==
    <<"c", "s", "-", "p", "r", "o", "f", "-", "c", "l", "o", "u", "d", "_",
      "u", "l", "t", "r", "a", "t", "a", "x", "-", "a", "p", "i", "-", "s",
      "e", "r", "v", "i", "c", "e", "s">>

KnownName2 ==
    <<"t", "a", "x", "-", "p", "r", "o", "f", "e", "s", "s", "i", "o", "n",
      "a", "l", "-", "s", "e", "r", "v", "i", "c", "e", "s">>

KnownName3 ==
    <<"t", "a", "x", "-", "a", "u", "t", "o", "m", "a", "t", "i", "o", "n",
      "-", "e", "n", "g", "i", "n", "e">>

GitHubSlash ==
    <<"G", "i", "t", "H", "u", "b", "/">>

GitHubDash ==
    <<"G", "i", "t", "H", "u", "b", "-">>

TrOwner ==
    <<"t", "r">>

RepoDash ==
    <<"r", "e", "p", "o", "-">>

OwnerWord ==
    <<"o", "w", "n", "e", "r">>

AzureDevOpsOwner ==
    <<"a", "z", "u", "r", "e", "d", "e", "v", "o", "p", "s">>

GithubCom ==
    <<"g", "i", "t", "h", "u", "b", ".", "c", "o", "m">>

HttpsGithubComTr ==
    <<"h", "t", "t", "p", "s", ":", "/", "/", "g", "i", "t", "h", "u", "b",
      ".", "c", "o", "m", "/", "t", "r", "/">>

RemoteHttps ==
    <<"h", "t", "t", "p", "s", ":", "/", "/", "g", "i", "t", "h", "u", "b",
      ".", "c", "o", "m", "/", "a", "c", "m", "e", "/", "w", "e", "b", ".",
      "g", "i", "t">>

RemoteSsh ==
    <<"g", "i", "t", "@", "g", "i", "t", "h", "u", "b", ".", "c", "o", "m",
      ":", "a", "c", "m", "e", "/", "w", "e", "b", ".", "g", "i", "t">>

RemoteAzure ==
    <<"h", "t", "t", "p", "s", ":", "/", "/", "d", "e", "v", ".", "a", "z",
      "u", "r", "e", ".", "c", "o", "m", "/", "o", "r", "g", "/", "p", "r",
      "o", "j", "/", "_", "g", "i", "t", "/", "w", "e", "b">>

RemoteBare ==
    <<"h", "t", "t", "p", "s", ":", "/", "/", "g", "i", "t", "h", "u", "b",
      ".", "c", "o", "m">>

AcmeWeb ==
    <<"a", "c", "m", "e", "/", "w", "e", "b">>

Acme ==
    <<"a", "c", "m", "e">>

Web ==
    <<"w", "e", "b">>

UnknownLongId ==
    <<"d", "e", "a", "d", "b", "e", "e", "f", "c", "a", "f", "e">>

UnknownShortId ==
    <<"a", "b", "c">>

AzurePath ==
    <<"w", "e", "b", "-", "s", "e", "r", "v", "i", "c", "e", "s">>

\* most repository paths in one call of _get_resolved_repositories
MaxInvolved == 2

\* s.replace(old, new), old not empty
RECURSIVE Replace(_, _, _)
Replace(s, old, new) ==
    LET k == Find(s, old)
    IN  IF k = 0 THEN s
        ELSE SubSeq(s, 1, k - 1) \o new \o Replace(Drop(s, k + Len(old) - 1), old, new)

\* the longest prefix of s none of whose characters is in stop
RECURSIVE Run(_, _)
Run(s, stop) ==
    IF s = <<>> \/ Head(s) \in stop THEN <<>>
    ELSE <<Head(s)>> \o Run(Tail(s), stop)

\* re.search(r'github\.com[:/]([^/]+)/([^/.]+)', url) tried at the
\* occurrences of "github.com" from position i on, leftmost first:
\* <<owner, repo>>, or <<>> when nothing matches
RECURSIVE GithubRemoteFrom(_, _)
GithubRemoteFrom(url, i) ==
    LET k == FindFrom(url, GithubCom, i)
    IN  IF k = 0 THEN <<>>
        ELSE LET rest == Drop(url, k + Len(GithubCom) - 1)
                 owner == Run(Tail(rest), {"/"})
                 after == Drop(rest, 1 + Len(owner))
                 repo == Run(Tail(after), {"/", "."})
             IN  IF /\ rest # <<>> /\ Head(rest) \in {":", "/"}
                    /\ owner # <<>>
                    /\ after # <<>> /\ Head(after) = "/"
                    /\ repo # <<>>
                 THEN <<owner, repo>>
                 ELSE GithubRemoteFrom(url, k + 1)

GithubRemoteMatch(url) == GithubRemoteFrom(url, 1)

\* known_repos, in the order of the dictionary
KnownRepos ==
    << [id |-> KnownId1, github_repo |-> TrOwner \o <<"/">> \o KnownName1,
        repo_name |-> KnownName1, owner |-> TrOwner, repo |-> KnownName1,
        remote_url |-> HttpsGithubComTr \o KnownName1],
       [id |-> KnownId2, github_repo |-> TrOwner \o <<"/">> \o KnownName2,
        repo_name |-> KnownName2, owner |-> TrOwner, repo |-> KnownName2,
        remote_url |-> HttpsGithubComTr \o KnownName2],
       [id |-> KnownId3, github_repo |-> TrOwner \o <<"/">> \o KnownName3,
        repo_name |-> KnownName3, owner |-> TrOwner, repo |-> KnownName3,
        remote_url |-> HttpsGithubComTr \o KnownName3] >>

\* the dictionary stored under a key of known_repos
InfoOf(k) ==
    [github_repo |-> KnownRepos[k].github_repo, repo_name |-> KnownRepos[k].repo_name,
     owner |-> KnownRepos[k].owner, repo |-> KnownRepos[k].repo,
     remote_url |-> KnownRepos[k].remote_url]

\* the "educated guess" of _try_github_resolution
GuessedInfo(repository_id) ==
    LET short_id == Take(repository_id, 8)
    IN  [github_repo |-> TrOwner \o <<"/">> \o RepoDash \o short_id,
         repo_name |-> RepoDash \o short_id,
         owner |-> TrOwner,
         repo |-> RepoDash \o short_id,
         remote_url |-> HttpsGithubComTr \o RepoDash \o short_id]

\* a plausible slip: only the exact match is looked for
TryGithubResolutionExactOnly(repository_id) ==
    LET exact == { k \in 1 .. Len(KnownRepos) : KnownRepos[k].id = repository_id }
    IN  IF exact # {} THEN <<InfoOf(CHOOSE k \in exact : TRUE)>>
        ELSE <<GuessedInfo(repository_id)>>

\* _try_github_resolution: <<info>> (a dictionary is returned on every path)
TryGithubResolution(repository_id) ==
    LET exact == { k \in 1 .. Len(KnownRepos) : KnownRepos[k].id = repository_id }
        partial == { k \in 1 .. Len(KnownRepos) :
                       StartsWith(KnownRepos[k].id, repository_id) }
    IN  IF exact # {} THEN <<InfoOf(CHOOSE k \in exact : TRUE)>>
        ELSE IF partial # {}
             THEN <<InfoOf(CHOOSE k \in partial : \A j \in partial : k <= j)>>
             ELSE <<GuessedInfo(repository_id)>>

\* what the repository-metadata request can do: raise, answer with a
\* non-success status, or answer 200 with a name and a remote URL
LookupResponses ==
    { [kind |-> "raise", name |-> <<>>, remote_url |-> <<>>],
      [kind |-> "not_found", name |-> <<>>, remote_url |-> <<>>] }
    \cup { [kind |-> "ok", name |-> Web, remote_url |-> u] :
             u \in {RemoteHttps, RemoteSsh, RemoteAzure, RemoteBare} }

NotAttempted == [kind |-> "not_attempted", name |-> <<>>, remote_url |-> <<>>]

\* _resolve_repository_name given what the request did: <<>> is None
ResolveRepositoryName(repository_id, has_creds, resp) ==
    IF ~has_creds THEN <<>>
    ELSE IF resp.kind = "ok"
    THEN LET m == IF Contains(resp.remote_url, GithubCom)
                  THEN GithubRemoteMatch(resp.remote_url) ELSE <<>>
         IN  IF m # <<>>
             THEN << [github_repo |-> m[1] \o <<"/">> \o m[2], repo_name |-> resp.name,
                      owner |-> m[1], repo |-> m[2], remote_url |-> resp.remote_url] >>
             ELSE << [github_repo |-> AzureDevOpsOwner \o <<"/">> \o resp.name,
                      repo_name |-> resp.name, owner |-> AzureDevOpsOwner,
                      repo |-> resp.name, remote_url |-> resp.remote_url] >>
    ELSE TryGithubResolution(repository_id)

\* repository_breakdown.get(key, 0)
GetCount(m, key) == IF key \in DOMAIN m THEN m[key] ELSE 0

\* the entry appended for one 'GitHub/...' path
ResolvedEntry(repo_path, counts, has_creds, resp) ==
    LET repo_id == Replace(repo_path, GitHubSlash, <<>>)
        resolved_info == ResolveRepositoryName(repo_id, has_creds, resp)
        pr_count == GetCount(counts, GitHubDash \o Take(repo_id, 8))
    IN  IF resolved_info # <<>>
        THEN [repository_id |-> repo_id,
              github_repo |-> resolved_info[1].github_repo,
              display_name |-> resolved_info[1].repo_name,
              owner |-> resolved_info[1].owner,
              repo |-> resolved_info[1].repo,
              remote_url |-> resolved_info[1].remote_url,
              pr_count |-> pr_count,
              full_path |-> repo_path,
              resolved |-> TRUE]
        ELSE [repository_id |-> repo_id,
              github_repo |-> OwnerWord \o <<"/">> \o RepoDash \o Take(repo_id, 8),
              display_name |-> GitHubDash \o Take(repo_id, 8),
              owner |-> OwnerWord,
              repo |-> RepoDash \o Take(repo_id, 8),
              remote_url |-> <<>>,
              pr_count |-> pr_count,
              full_path |-> repo_path,
              resolved |-> FALSE]

\* the repository paths a pass can hand over, in sorted order
\* (the callers pass sorted(list(repositories)))
AllPaths ==
    << GitHubSlash,
       GitHubSlash \o <<"2">>,
       GitHubSlash \o Take(KnownId1, 8) \o <<"-", "1">>,
       GitHubSlash \o KnownId1,
       GitHubSlash \o Take(KnownId3, 8),
       GitHubSlash \o UnknownShortId,
       GitHubSlash \o UnknownLongId,
       AzurePath >>

RECURSIVE PickPaths(_, _)
PickPaths(S, i) ==
    IF i > Len(AllPaths) THEN <<>>
    ELSE (IF i \in S THEN <<AllPaths[i]>> ELSE <<>>) \o PickPaths(S, i + 1)

PathLists ==
    { PickPaths(S, 1) :
        S \in { T \in SUBSET (1 .. Len(AllPaths)) : Cardinality(T) <= MaxInvolved } }

\* how many PR links of the pass can point at one repository
LinkCounts == {0, 1, 2}

\* the `repository` field of the links whose full_repo_path is path:
\* 'GitHub-<first 8 of the id>' for a 'GitHub/<id>' path, the path otherwise
RepositoryOfPath(path) ==
    IF StartsWith(path, GitHubSlash)
    THEN GitHubDash \o Take(Drop(path, Len(GitHubSlash)), 8)
    ELSE path

\* repository_breakdown: the PR links of the pass counted per `repository`
RepositoryBreakdown(paths, counts) ==
    LET Count(i) == counts[i]
        Keyed(k) == { i \in 1 .. Len(paths) : RepositoryOfPath(paths[i]) = k /\ counts[i] > 0 }
        RECURSIVE Sum(_)
        Sum(S) == IF S = {} THEN 0
                  ELSE LET i == CHOOSE x \in S : TRUE IN Count(i) + Sum(S \ {i})
    IN  [k \in { RepositoryOfPath(paths[i]) : i \in { j \in 1 .. Len(paths) : counts[j] > 0 } }
            |-> Sum(Keyed(k))]

InitRes ==
    /\ creds \in BOOLEAN
    /\ involved \in PathLists
    /\ link_counts \in [1 .. Len(involved) -> LinkCounts]
    /\ breakdown = RepositoryBreakdown(involved, link_counts)
    /\ ridx = 1
    /\ lookups = <<>>
    /\ resolved_repos = <<>>
    /\ rpc = "loop"

IdleRes ==
    /\ creds = TRUE
    /\ involved = <<>>
    /\ link_counts = <<>>
    /\ breakdown = EmptyMap
    /\ ridx = 1
    /\ lookups = <<>>
    /\ resolved_repos = <<>>
    /\ rpc = "idle"

\* one iteration for a path that does not start with 'GitHub/': no entry
SkipOtherPath ==
    /\ rpc = "loop"
    /\ ridx <= Len(involved)
    /\ ~StartsWith(involved[ridx], GitHubSlash)
    /\ lookups' = Append(lookups, NotAttempted)
    /\ ridx' = ridx + 1
    /\ UNCHANGED <<creds, involved, breakdown, link_counts, resolved_repos, rpc, notRes>>

\* one iteration for a 'GitHub/<id>' path: resolve the id and append the entry
ResolveNext ==
    /\ rpc = "loop"
    /\ ridx <= Len(involved)
    /\ StartsWith(involved[ridx], GitHubSlash)
    /\ \E resp \in (IF creds THEN LookupResponses ELSE {NotAttempted}) :
          /\ lookups' = Append(lookups, resp)
          /\ resolved_repos' =
                Append(resolved_repos, ResolvedEntry(involved[ridx], breakdown, creds, resp))
    /\ ridx' = ridx + 1
    /\ UNCHANGED <<creds, involved, breakdown, link_counts, rpc, notRes>>

\* return resolved_repos
ReturnResolved ==
    /\ rpc = "loop"
    /\ ridx > Len(involved)
    /\ rpc' = "done"
    /\ UNCHANGED <<creds, involved, breakdown, link_counts, ridx, lookups, resolved_repos, notRes>>

NextRes == SkipOtherPath \/ ResolveNext \/ ReturnResolved

----------------------------------------------------------------------------
(* Link extraction from work item relations: _extract_pr_links,            *)
(* _extract_repo_from_pr_url and enrich_pr_with_details                    *)

UpperAlphabet ==
    <<"A", "B", "C", "D", "E", "F", "G", "H", "I", "J", "K", "L", "M", "N",
      "O", "P", "Q", "R", "S", "T", "U", "V", "W", "X", "Y", "Z">>

LowerAlphabet ==
    <<"a", "b", "c", "d", "e", "f", "g", "h", "i", "j", "k", "l", "m", "n",
      "o", "p", "q", "r", "s", "t", "u", "v", "w", "x", "y", "z">>

Digits ==
    <<"0", "1", "2", "3", "4", "5", "6", "7", "8", "9">>

HexDigits ==
    <<"a", "b", "c", "d", "e", "f", "0", "1", "2", "3", "4", "5", "6", "7",
      "8", "9">>

VstfsGitHubPullRequest ==
    <<"v", "s", "t", "f", "s", ":", "/", "/", "/", "G", "i", "t", "H", "u",
      "b", "/", "P", "u", "l", "l", "R", "e", "q", "u", "e", "s", "t", "/">>

VstfsGitHubCommit ==
    <<"v", "s", "t", "f", "s", ":", "/", "/", "/", "G", "i", "t", "H", "u",
      "b", "/", "C", "o", "m", "m", "i", "t", "/">>

PercentTwoF ==
    <<"%", "2", "f">>

GithubComSlash ==
    <<"g", "i", "t", "h", "u", "b", ".", "c", "o", "m", "/">>

HttpsGithubCom ==
    <<"h", "t", "t", "p", "s", ":", "/", "/", "g", "i", "t", "h", "u", "b",
      ".", "c", "o", "m", "/">>

SlashPullSlash ==
    <<"/", "p", "u", "l", "l", "/">>

PullSlash ==
    <<"p", "u", "l", "l", "/">>

PrSlash ==
    <<"p", "r", "/">>

PullRequestWord ==
    <<"p", "u", "l", "l", "r", "e", "q", "u", "e", "s", "t">>

PullRequestsWord ==
    <<"p", "u", "l", "l", "r", "e", "q", "u", "e", "s", "t", "s">>

GitSlash ==
    <<"_", "g", "i", "t", "/">>

SlashGitSlash ==
    <<"/", "_", "g", "i", "t", "/">>

RepositoriesSlash ==
    <<"r", "e", "p", "o", "s", "i", "t", "o", "r", "i", "e", "s", "/">>

SlashRepositoriesSlash ==
    <<"/", "r", "e", "p", "o", "s", "i", "t", "o", "r", "i", "e", "s", "/">>

PullRequestSlash ==
    <<"p", "u", "l", "l", "r", "e", "q", "u", "e", "s", "t", "/">>

SlashPullRequestSlash ==
    <<"/", "p", "u", "l", "l", "r", "e", "q", "u", "e", "s", "t", "/">>

PullRequestsCamelSlash ==
    <<"p", "u", "l", "l", "R", "e", "q", "u", "e", "s", "t", "s", "/">>

SlashPullRequestsCamelSlash ==
    <<"/", "p", "u", "l", "l", "R", "e", "q", "u", "e", "s", "t", "s", "/">>

ArtifactLinkWord ==
    <<"a", "r", "t", "i", "f", "a", "c", "t", "l", "i", "n", "k">>

HyperlinkWord ==
    <<"h", "y", "p", "e", "r", "l", "i", "n", "k">>

DevelopmentWord ==
    <<"d", "e", "v", "e", "l", "o", "p", "m", "e", "n", "t">>

WorkWord ==
    <<"w", "o", "r", "k">>

CommitDash ==
    <<"c", "o", "m", "m", "i", "t", "-">>

UnknownWord ==
    <<"u", "n", "k", "n", "o", "w", "n">>

RelArtifactLink ==
    <<"A", "r", "t", "i", "f", "a", "c", "t", "L", "i", "n", "k">>

RelHyperlink ==
    <<"H", "y", "p", "e", "r", "l", "i", "n", "k">>

RelRelated ==
    <<"S", "y", "s", "t", "e", "m", ".", "L", "i", "n", "k", "T", "y", "p",
      "e", "s", ".", "R", "e", "l", "a", "t", "e", "d">>

LongHash ==
    <<"9", "f", "c", "e", "b", "0", "2", "d", "0", "a", "e", "5">>

ShortHash ==
    <<"a", "b", "c", "1", "2", "3">>

PrNumber42 ==
    <<"4", "2">>

PrNumber7 ==
    <<"7">>

AzureGitPrUrl ==
    <<"h", "t", "t", "p", "s", ":", "/", "/", "d", "e", "v", ".", "a", "z",
      "u", "r", "e", ".", "c", "o", "m", "/", "o", "r", "g", "/", "p", "r",
      "o", "j", "/", "_", "g", "i", "t", "/", "w", "e", "b", "/", "p", "u",
      "l", "l", "r", "e", "q", "u", "e", "s", "t", "/", "5">>

AzureApiPrUrl ==
    <<"h", "t", "t", "p", "s", ":", "/", "/", "d", "e", "v", ".", "a", "z",
      "u", "r", "e", ".", "c", "o", "m", "/", "o", "r", "g", "/", "p", "r",
      "o", "j", "/", "_", "a", "p", "i", "s", "/", "g", "i", "t", "/", "r",
      "e", "p", "o", "s", "i", "t", "o", "r", "i", "e", "s", "/", "w", "e",
      "b", "/", "p", "u", "l", "l", "R", "e", "q", "u", "e", "s", "t", "s",
      "/", "5">>

\* a path-form PR URL of a project named 'github.com'
AzureGithubProjectPrUrl ==
    <<"h", "t", "t", "p", "s", ":", "/", "/", "d", "e", "v", ".", "a", "z",
      "u", "r", "e", ".", "c", "o", "m", "/", "o", "r", "g", "/", "g", "i",
      "t", "h", "u", "b", ".", "c", "o", "m", "/", "_", "g", "i", "t", "/",
      "w", "e", "b", "/", "p", "u", "l", "l", "r", "e", "q", "u", "e", "s",
      "t", "/", "5">>

PrNumber5 ==
    <<"5">>

\* a URL only the hyperlink fallback accepts
PrPathUrl ==
    <<"h", "t", "t", "p", "s", ":", "/", "/", "e", "x", "a", "m", "p", "l",
      "e", ".", "c", "o", "m", "/", "p", "r", "/", "9">>

\* a path-form PR URL with a query after the id
AzureQueryPrUrl ==
    <<"h", "t", "t", "p", "s", ":", "/", "/", "d", "e", "v", ".", "a", "z",
      "u", "r", "e", ".", "c", "o", "m", "/", "o", "r", "g", "/", "p", "r",
      "o", "j", "/", "_", "g", "i", "t", "/", "w", "e", "b", "/", "p", "u",
      "l", "l", "r", "e", "q", "u", "e", "s", "t", "/", "5", "?", "v", "i",
      "e", "w", "=", "c", "o", "m", "m", "i", "t", "-", "l", "i", "s", "t">>

DocsUrl ==
    <<"h", "t", "t", "p", "s", ":", "/", "/", "e", "x", "a", "m", "p", "l",
      "e", ".", "c", "o", "m", "/", "d", "o", "c", "s">>

\* most relations on the work item
MaxRelations == 2

\* the characters of a string
CharsOf(s) == { s[i] : i \in 1 .. Len(s) }

DigitChars == CharsOf(Digits)

HexChars == CharsOf(HexDigits)

UpperChars == CharsOf(UpperAlphabet)

\* c.lower() for the letters of the alphabet used
LowerChar(c) ==
    IF c \in UpperChars
    THEN LowerAlphabet[CHOOSE i \in 1 .. Len(UpperAlphabet) : UpperAlphabet[i] = c]
    ELSE c

\* s.lower()
Lower(s) == [i \in 1 .. Len(s) |-> LowerChar(s[i])]

\* the longest prefix of s all of whose characters are in allowed
RECURSIVE Span(_, _)
Span(s, allowed) ==
    IF s = <<>> \/ Head(s) \notin allowed THEN <<>>
    ELSE <<Head(s)>> \o Span(Tail(s), allowed)

\* None and a present value of an optional field
None == <<>>
Some(x) == <<x>>

\* truth value of an optional string: None and '' are false
Truthy(opt) == opt # None /\ opt[1] # <<>>

\* re.search(prefix + r'([^%]+)%2f(<allowed>+)', url) from position i on:
\* <<repo_id, tail>>, or <<>> when nothing matches
RECURSIVE VstfsMatchFrom(_, _, _, _)
VstfsMatchFrom(url, prefix, allowed, i) ==
    LET k == FindFrom(url, prefix, i)
    IN  IF k = 0 THEN <<>>
        ELSE LET rest == Drop(url, k + Len(prefix) - 1)
                 repo_id == Run(rest, {"%"})
                 after == Drop(rest, Len(repo_id))
                 tail == Span(Drop(after, Len(PercentTwoF)), allowed)
             IN  IF repo_id # <<>> /\ StartsWith(after, PercentTwoF) /\ tail # <<>>
                 THEN <<repo_id, tail>>
                 ELSE VstfsMatchFrom(url, prefix, allowed, k + 1)

\* re.search(r'github\.com/([^/]+)/([^/]+)/pull/(\d+)', url) from position i
\* on: <<owner, repo, pr_number>>, or <<>> when nothing matches
RECURSIVE GithubPullFrom(_, _)
GithubPullFrom(url, i) ==
    LET k == FindFrom(url, GithubComSlash, i)
    IN  IF k = 0 THEN <<>>
        ELSE LET rest == Drop(url, k + Len(GithubComSlash) - 1)
                 owner == Run(rest, {"/"})
                 a1 == Drop(rest, Len(owner))
                 repo == IF a1 = <<>> THEN <<>> ELSE Run(Tail(a1), {"/"})
                 a2 == Drop(a1, 1 + Len(repo))
                 number == Span(Drop(a2, Len(SlashPullSlash)), DigitChars)
             IN  IF /\ owner # <<>> /\ a1 # <<>>
                    /\ repo # <<>>
                    /\ StartsWith(a2, SlashPullSlash)
                    /\ number # <<>>
                 THEN <<owner, repo, number>>
                 ELSE GithubPullFrom(url, k + 1)

\* a plausible slip: the fallback does not keep the URL
DefaultResultWithoutUrl(url) ==
    [repository |-> UnknownWord, pr_number |-> UnknownWord, platform |-> "unknown",
     full_repo_path |-> UnknownWord, repository_id |-> None, commit_id |-> None]

\* default_result
DefaultResult(url) ==
    [repository |-> url, pr_number |-> UnknownWord, platform |-> "unknown",
     full_repo_path |-> url, repository_id |-> None, commit_id |-> None]

\* the result for a VSTFS GitHub pull request URL
PullRequestResult(repo_id, pr_number) ==
    [repository |-> GitHubDash \o Take(repo_id, 8), pr_number |-> pr_number,
     platform |-> "GitHub", full_repo_path |-> GitHubSlash \o repo_id,
     repository_id |-> Some(repo_id), commit_id |-> None]

\* a plausible slip: the whole hash is kept in the reference
CommitResultFullHash(repo_id, commit_hash) ==
    [repository |-> GitHubDash \o Take(repo_id, 8),
     pr_number |-> CommitDash \o commit_hash,
     platform |-> "GitHub", full_repo_path |-> GitHubSlash \o repo_id,
     repository_id |-> Some(repo_id), commit_id |-> Some(commit_hash)]

\* the result for a VSTFS GitHub commit URL
CommitResult(repo_id, commit_hash) ==
    [repository |-> GitHubDash \o Take(repo_id, 8),
     pr_number |-> CommitDash \o Take(commit_hash, 8),
     platform |-> "GitHub", full_repo_path |-> GitHubSlash \o repo_id,
     repository_id |-> Some(repo_id), commit_id |-> Some(commit_hash)]

\* the result for a standard GitHub pull request URL
GithubResult(owner, repo, pr_number) ==
    [repository |-> repo, pr_number |-> pr_number, platform |-> "GitHub",
     full_repo_path |-> owner \o <<"/">> \o repo,
     repository_id |-> None, commit_id |-> None]

\* the two Azure DevOps shapes: split on the repository marker, then on the
\* pull request marker
AzureResult(url, repo_sep, pr_sep) ==
    LET parts == Split(url, repo_sep)
    IN  IF Len(parts) > 1
        THEN LET repo_and_pr == parts[2]
                 pr_match == Split(repo_and_pr, pr_sep)
                 repo_part == pr_match[1]
                 pr_number == IF Len(pr_match) > 1
                              THEN Split(pr_match[2], <<"/">>)[1]
                              ELSE UnknownWord
             IN  [repository |-> repo_part, pr_number |-> pr_number,
                  platform |-> "Azure DevOps", full_repo_path |-> repo_part,
                  repository_id |-> Some(repo_part), commit_id |-> None]
        ELSE DefaultResult(url)

\* _extract_repo_from_pr_url
ExtractRepoFromPrUrl(url) ==
    IF StartsWith(url, VstfsGitHubPullRequest)
    THEN LET m == VstfsMatchFrom(url, VstfsGitHubPullRequest, DigitChars, 1)
         IN  IF m # <<>> THEN PullRequestResult(m[1], m[2]) ELSE DefaultResult(url)
    ELSE IF StartsWith(url, VstfsGitHubCommit)
    THEN LET m == VstfsMatchFrom(url, VstfsGitHubCommit, HexChars, 1)
         IN  IF m # <<>> THEN CommitResult(m[1], m[2]) ELSE DefaultResult(url)
    ELSE IF Contains(Lower(url), GithubCom)
    THEN LET m == GithubPullFrom(url, 1)
         IN  IF m # <<>> THEN GithubResult(m[1], m[2], m[3]) ELSE DefaultResult(url)
    ELSE IF Contains(url, GitSlash) /\ Contains(url, PullRequestSlash)
    THEN AzureResult(url, SlashGitSlash, SlashPullRequestSlash)
    ELSE IF Contains(url, RepositoriesSlash) /\ Contains(url, PullRequestsCamelSlash)
    THEN AzureResult(url, SlashRepositoriesSlash, SlashPullRequestsCamelSlash)
    ELSE DefaultResult(url)

\* a plausible slip: the URL rule for GitHub pull requests is left to the
\* hyperlink fallback alone
IsPrLinkGitHubOnlyOnHyperlinks(rel_type, url) ==
    LET lower_url == Lower(url)
    IN  \/ rel_type = ArtifactLinkWord
        \/ Contains(rel_type, PullRequestWord)
        \/ Contains(rel_type, DevelopmentWord) /\ Contains(rel_type, WorkWord)
        \/ Contains(lower_url, GitSlash) /\ Contains(lower_url, PullRequestWord)
        \/ Contains(lower_url, RepositoriesSlash) /\ Contains(lower_url, PullRequestsWord)
        \/ /\ rel_type = HyperlinkWord
           /\ \/ Contains(lower_url, GithubCom) /\ Contains(url, PullSlash)
              \/ Contains(lower_url, PullSlash)
              \/ Contains(lower_url, PrSlash)
              \/ Contains(lower_url, PullRequestWord)

\* a plausible slip: the hyperlink fallback does not look for 'pullrequest'
IsPrLinkNoPullRequestWord(rel_type, url) ==
    LET lower_url == Lower(url)
    IN  \/ rel_type = ArtifactLinkWord
        \/ Contains(rel_type, PullRequestWord)
        \/ Contains(rel_type, DevelopmentWord) /\ Contains(rel_type, WorkWord)
        \/ Contains(lower_url, GithubCom) /\ Contains(url, PullSlash)
        \/ Contains(lower_url, GitSlash) /\ Contains(lower_url, PullRequestWord)
        \/ Contains(lower_url, RepositoriesSlash) /\ Contains(lower_url, PullRequestsWord)
        \/ /\ rel_type = HyperlinkWord
           /\ \/ Contains(lower_url, GithubCom) /\ Contains(url, PullSlash)
              \/ Contains(lower_url, PullSlash)
              \/ Contains(lower_url, PrSlash)

\* a plausible slip: every hyperlink is taken, whatever its URL
IsPrLinkAnyHyperlink(rel_type, url) ==
    LET lower_url == Lower(url)
    IN  \/ rel_type = ArtifactLinkWord
        \/ Contains(rel_type, PullRequestWord)
        \/ Contains(rel_type, DevelopmentWord) /\ Contains(rel_type, WorkWord)
        \/ Contains(lower_url, GithubCom) /\ Contains(url, PullSlash)
        \/ Contains(lower_url, GitSlash) /\ Contains(lower_url, PullRequestWord)
        \/ Contains(lower_url, RepositoriesSlash) /\ Contains(lower_url, PullRequestsWord)
        \/ rel_type = HyperlinkWord

\* is_pr_link; rel_type is already lower-cased
IsPrLink(rel_type, url) ==
    LET lower_url == Lower(url)
    IN  \/ rel_type = ArtifactLinkWord
        \/ Contains(rel_type, PullRequestWord)
        \/ Contains(rel_type, DevelopmentWord) /\ Contains(rel_type, WorkWord)
        \/ Contains(lower_url, GithubCom) /\ Contains(url, PullSlash)
        \/ Contains(lower_url, GitSlash) /\ Contains(lower_url, PullRequestWord)
        \/ Contains(lower_url, RepositoriesSlash) /\ Contains(lower_url, PullRequestsWord)
        \/ /\ rel_type = HyperlinkWord
           /\ \/ Contains(lower_url, GithubCom) /\ Contains(url, PullSlash)
              \/ Contains(lower_url, PullSlash)
              \/ Contains(lower_url, PrSlash)
              \/ Contains(lower_url, PullRequestWord)

\* pr_info as built from the relation and repo_info, before enrichment;
\* details tells which detail fields enrichment has added
PrInfo(rel_type, url) ==
    LET repo_info == ExtractRepoFromPrUrl(url)
    IN  [relation_type |-> rel_type, url |-> url,
         repository |-> repo_info.repository,
         pr_number |-> repo_info.pr_number,
         platform |-> repo_info.platform,
         full_repo_path |-> repo_info.full_repo_path,
         repository_id |-> repo_info.repository_id,
         commit_id |-> repo_info.commit_id,
         details |-> "none"]

\* which detail request enrich_pr_with_details makes for pr_info
DetailRequest(pr_info) ==
    IF /\ pr_info.platform = "Azure DevOps"
       /\ Truthy(pr_info.repository_id)
       /\ pr_info.pr_number # <<>>
    THEN "pr"
    ELSE IF Truthy(pr_info.commit_id) /\ Truthy(pr_info.repository_id)
    THEN "commit"
    ELSE "none"

\* a plausible slip: a failed detail request blanks the reference
EnrichPrWithDetailsBlanking(pr_info, got_details) ==
    IF DetailRequest(pr_info) # "none" /\ got_details
    THEN [pr_info EXCEPT !.details = DetailRequest(pr_info)]
    ELSE IF DetailRequest(pr_info) # "none"
    THEN [pr_info EXCEPT !.pr_number = UnknownWord]
    ELSE pr_info

\* enrich_pr_with_details: got_details tells whether the detail request gave
\* details (status 200 with a body that is not empty); a failed request,
\* an empty body or an exception leaves pr_info as it is
EnrichPrWithDetails(pr_info, got_details) ==
    IF DetailRequest(pr_info) # "none" /\ got_details
    THEN [pr_info EXCEPT !.details = DetailRequest(pr_info)]
    ELSE pr_info

\* 'commit-' in str(pr_number)
IsCommit(pr) == Contains(pr.pr_number, CommitDash)

\* a URL with a GitHub pull request path followed by a path-form PR path
GithubAndAzurePrUrl ==
    HttpsGithubCom \o AcmeWeb \o SlashPullSlash \o PrNumber7
        \o SlashGitSlash \o Web \o SlashPullRequestSlash \o PrNumber5

\* the relation types and URLs a work item of the model can carry
RelTypes == {RelArtifactLink, RelHyperlink, RelRelated}

VstfsPullRequestUrls ==
    { VstfsGitHubPullRequest \o UnknownLongId \o PercentTwoF \o PrNumber42 }

VstfsCommitUrls ==
    { VstfsGitHubCommit \o UnknownLongId \o PercentTwoF \o LongHash,
      VstfsGitHubCommit \o UnknownShortId \o PercentTwoF \o ShortHash }

GithubPullUrls ==
    { HttpsGithubCom \o AcmeWeb \o SlashPullSlash \o PrNumber7 }

Urls ==
    VstfsPullRequestUrls \cup VstfsCommitUrls \cup GithubPullUrls
        \cup {AzureGitPrUrl, DocsUrl}

Relations ==
    [rel : RelTypes, url : Urls]
        \cup { [rel |-> RelArtifactLink, url |-> AzureApiPrUrl],
               [rel |-> RelRelated, url |-> AzureGithubProjectPrUrl],
               [rel |-> RelHyperlink, url |-> PrPathUrl],
               [rel |-> RelArtifactLink, url |-> AzureQueryPrUrl],
               [rel |-> RelRelated, url |-> GithubAndAzurePrUrl] }

RECURSIVE SeqsUpTo(_, _)
SeqsUpTo(S, n) ==
    IF n = 0 THEN {<<>>}
    ELSE LET shorter == SeqsUpTo(S, n - 1)
         IN  shorter \cup { Append(q, x) : q \in shorter, x \in S }

InitLink ==
    /\ relations \in SeqsUpTo(Relations, MaxRelations)
    /\ lidx = 1
    /\ pr_links = <<>>
    /\ detail_fetches = <<>>
    /\ lpc = "loop"

IdleLink ==
    /\ relations = <<>>
    /\ lidx = 1
    /\ pr_links = <<>>
    /\ detail_fetches = <<>>
    /\ lpc = "idle"

\* one iteration for a relation that is a PR link: extract, enrich, append
AppendLink ==
    /\ lpc = "loop"
    /\ lidx <= Len(relations)
    /\ LET rel_type == Lower(relations[lidx].rel)
           url == relations[lidx].url
           pr_info == PrInfo(rel_type, url)
       IN  /\ IsPrLink(rel_type, url)
           /\ IF DetailRequest(pr_info) = "none"
              THEN /\ pr_links' = Append(pr_links, EnrichPrWithDetails(pr_info, FALSE))
                   /\ UNCHANGED detail_fetches
              ELSE \E got_details \in BOOLEAN :
                     /\ detail_fetches' =
                           Append(detail_fetches,
                                  [relation |-> lidx, kind |-> DetailRequest(pr_info),
                                   got_details |-> got_details])
                     /\ pr_links' = Append(pr_links, EnrichPrWithDetails(pr_info, got_details))
    /\ lidx' = lidx + 1
    /\ UNCHANGED <<relations, lpc, notLink>>

\* one iteration for a relation that is not a PR link: nothing is appended
DiscardRelation ==
    /\ lpc = "loop"
    /\ lidx <= Len(relations)
    /\ ~IsPrLink(Lower(relations[lidx].rel), relations[lidx].url)
    /\ lidx' = lidx + 1
    /\ UNCHANGED <<relations, pr_links, detail_fetches, lpc, notLink>>

\* return pr_links
ReturnLinks ==
    /\ lpc = "loop"
    /\ lidx > Len(relations)
    /\ lpc' = "done"
    /\ UNCHANGED <<relations, lidx, pr_links, detail_fetches, notLink>>

NextLink == AppendLink \/ DiscardRelation \/ ReturnLinks

----------------------------------------------------------------------------
(* The final sort of recent_prs, on lists long enough for the cap          *)

\* longest list of recent PRs handed to the sort
MaxRecent == 22

\* created_at of the i-th entry of a list, for the orders of arrival modelled:
\* all equal, oldest first, newest first, and three interleavings
DateOf(pattern, i) ==
    CASE pattern = "same" -> 1
      [] pattern = "ascending" -> i
      [] pattern = "descending" -> MaxRecent + 1 - i
      [] pattern = "two" -> i % 2
      [] pattern = "three" -> i % 3
      [] pattern = "mixed" -> (i * 7) % 5

DatePatterns == {"same", "ascending", "descending", "two", "three", "mixed"}

\* the list of n copied PRs in their order of arrival; number tells them apart
RecentList(pattern, n) ==
    [i \in 1 .. n |-> [number |-> i, created_at |-> DateOf(pattern, i)]]

InitSort ==
    /\ recent_in \in { RecentList(p, n) : p \in DatePatterns, n \in 0 .. MaxRecent }
    /\ recent_out = <<>>
    /\ spc = "sort"

IdleSort ==
    /\ recent_in = <<>>
    /\ recent_out = <<>>
    /\ spc = "idle"

\* sorted(recent_prs, key=created_at, reverse=True)[:20]
SortAndTruncate ==
    /\ spc = "sort"
    /\ recent_out' = Take(SortRecent(recent_in), GlobalRecentCap)
    /\ spc' = "done"
    /\ UNCHANGED <<recent_in, notSort>>

NextSort == SortAndTruncate

----------------------------------------------------------------------------
(* _get_work_items_with_relations_batch: the relation fetches of a pass    *)

\* most work items handed to one call
MaxItems == 12

\* batch_size = 10
BatchSize == 10

\* the ids of n work items, in the order the vendor returned them
WorkItemIds(n) == [k \in 1 .. n |-> n + 1 - k]

\* what _extract_pr_links returns for the relations of a work item: none,
\* one or two links, told apart by the id and their position
LinksFound(work_item_id) ==
    [k \in 1 .. (work_item_id % 3) |-> [work_item |-> work_item_id, link |-> k]]

\* _get_work_item_relations: the links of the work item, [] when the answer
\* is not 200 or the request raises
GetWorkItemRelations(work_item_id, failed) ==
    IF work_item_id \in failed THEN <<>> ELSE LinksFound(work_item_id)

\* a plausible slip: the slice runs one entry into the next batch
BatchIdsOverlapping(ids, i) == SubSeq(ids, i + 1, Min(i + BatchSize + 1, Len(ids)))

\* work_item_ids[i:i + batch_size]
BatchIds(ids, i) == SubSeq(ids, i + 1, Min(i + BatchSize, Len(ids)))

\* all_pr_links.extend([(work_item_id, link) for link in pr_links])
Extend(links, work_item_id, found) ==
    links \o [k \in 1 .. Len(found) |-> <<work_item_id, found[k]>>]

InitBatch ==
    /\ work_item_ids \in { WorkItemIds(n) : n \in 0 .. MaxItems }
    /\ failing \in { S \in SUBSET { work_item_ids[k] : k \in 1 .. Len(work_item_ids) } :
                       Cardinality(S) <= 1 }
    /\ bstart = 0
    /\ bpos = 1
    /\ visit_log = <<>>
    /\ pauses = 0
    /\ all_pr_links = <<>>
    /\ bpc = "loop"

IdleBatch ==
    /\ work_item_ids = <<>>
    /\ failing = {}
    /\ bstart = 0
    /\ bpos = 1
    /\ visit_log = <<>>
    /\ pauses = 0
    /\ all_pr_links = <<>>
    /\ bpc = "idle"

\* one iteration of `for work_item_id in batch_ids`
VisitItem ==
    /\ bpc = "loop"
    /\ bstart < Len(work_item_ids)
    /\ bpos <= Len(BatchIds(work_item_ids, bstart))
    /\ LET work_item_id == BatchIds(work_item_ids, bstart)[bpos]
           found == GetWorkItemRelations(work_item_id, failing)
       IN  /\ visit_log' = Append(visit_log, [id |-> work_item_id,
                                              batch |-> (bstart \div BatchSize) + 1])
           /\ all_pr_links' = IF found # <<>> THEN Extend(all_pr_links, work_item_id, found)
                              ELSE all_pr_links
    /\ bpos' = bpos + 1
    /\ UNCHANGED <<work_item_ids, failing, bstart, pauses, bpc, notBatch>>

\* the end of a batch: time.sleep(0.1), then the next value of i
PauseAfterBatch ==
    /\ bpc = "loop"
    /\ bstart < Len(work_item_ids)
    /\ bpos > Len(BatchIds(work_item_ids, bstart))
    /\ pauses' = pauses + 1
    /\ bstart' = bstart + BatchSize
    /\ bpos' = 1
    /\ UNCHANGED <<work_item_ids, failing, visit_log, all_pr_links, bpc, notBatch>>

\* return all_pr_links
ReturnBatchLinks ==
    /\ bpc = "loop"
    /\ bstart >= Len(work_item_ids)
    /\ bpc' = "done"
    /\ UNCHANGED <<work_item_ids, failing, bstart, bpos, visit_log, pauses,
                   all_pr_links, notBatch>>

NextBatch == VisitItem \/ PauseAfterBatch \/ ReturnBatchLinks

----------------------------------------------------------------------------
(* get_streamlined_analytics from step 2 on, and the work item loop of     *)
(* get_analytics_summary, over the same work items                         *)

\* most work items of a pass
MaxWorkItems == 2

\* the relations one work item can have
RelationLists ==
    LET pull == [rel |-> RelArtifactLink,
                 url |-> VstfsGitHubPullRequest \o UnknownLongId \o PercentTwoF \o PrNumber42]
        commit == [rel |-> RelArtifactLink,
                   url |-> VstfsGitHubCommit \o UnknownLongId \o PercentTwoF \o LongHash]
        other_commit == [rel |-> RelArtifactLink,
                         url |-> VstfsGitHubCommit \o UnknownShortId \o PercentTwoF \o ShortHash]
        github == [rel |-> RelHyperlink,
                   url |-> HttpsGithubCom \o AcmeWeb \o SlashPullSlash \o PrNumber7]
        azure == [rel |-> RelArtifactLink, url |-> AzureGitPrUrl]
        docs == [rel |-> RelHyperlink, url |-> DocsUrl]
    IN  { <<>>, <<docs>>, <<pull>>, <<commit>>, <<other_commit>>, <<github>>, <<azure>>,
          <<pull, commit>> }

\* _extract_pr_links over the relations of one work item: one link for
\* each relation that is a PR link (the details enrichment adds change no
\* field read here)
RECURSIVE ExtractPrLinks(_)
ExtractPrLinks(rels) ==
    IF rels = <<>> THEN <<>>
    ELSE (IF IsPrLink(Lower(Head(rels).rel), Head(rels).url)
          THEN <<PrInfo(Lower(Head(rels).rel), Head(rels).url)>>
          ELSE <<>>) \o ExtractPrLinks(Tail(rels))

CountsInit == [pr_count |-> 0, commit_count |-> 0, repositories |-> {}, all_prs |-> <<>>]

NoAnalytics == [status |-> "none"]

\* _get_work_item_basic_details: every work item starts with
\* associated_prs = []
BasicDetails(items) == [i \in 1 .. Len(items) |-> <<>>]

\* step 2 of get_streamlined_analytics: the links found by
\* _get_work_item_details replace the empty lists when it answers
AttachPrData(rels, answered) ==
    IF answered THEN [i \in 1 .. Len(rels) |-> ExtractPrLinks(rels[i])]
    ELSE BasicDetails(rels)

\* the body of `for pr in associated_prs` of get_streamlined_analytics
CountLink(c, pr) ==
    LET repo == IF pr.full_repo_path # <<>> THEN pr.full_repo_path ELSE pr.repository
        c1 == IF pr.relation_type = <<"c", "o", "m", "m", "i", "t">>
              THEN [c EXCEPT !.commit_count = @ + 1]
              ELSE [c EXCEPT !.pr_count = @ + 1,
                             !.all_prs = Append(@, pr.repository)]
    IN  IF repo # <<>> THEN [c1 EXCEPT !.repositories = @ \cup {repo}] ELSE c1

RECURSIVE CountLinks(_, _)
CountLinks(c, prs) ==
    IF prs = <<>> THEN c ELSE CountLinks(CountLink(c, Head(prs)), Tail(prs))

\* "Create repository breakdown"
BreakdownOfPrs(prs) ==
    [k \in { prs[i] : i \in 1 .. Len(prs) } |->
        Cardinality({ i \in 1 .. Len(prs) : prs[i] = k })]

\* len(_get_resolved_repositories(...)): one entry for each 'GitHub/' path,
\* none for any other path
ResolvedCount(paths) == Cardinality({ p \in paths : StartsWith(p, GitHubSlash) })

\* 'data' of the result of get_streamlined_analytics; involved_repositories
\* is the sorted list of the set kept here
StreamlinedData(n, c) ==
    [ total_work_items |-> n,
      total_pull_requests |-> c.pr_count,
      total_commits |-> c.commit_count,
      total_repositories |-> ResolvedCount(c.repositories),
      repository_breakdown |-> BreakdownOfPrs(c.all_prs),
      involved_repositories |-> c.repositories ]

\* work_items_with_prs as the loop of get_analytics_summary tally it
WorkItemsWithPrs(prs_of) ==
    Cardinality({ i \in 1 .. Len(prs_of) : prs_of[i] # <<>> })

InitPass ==
    /\ item_relations \in UNION { [1 .. n -> RelationLists] : n \in 1 .. MaxWorkItems }
    /\ details_ok \in BOOLEAN
    /\ associated = BasicDetails(item_relations)
    /\ aidx = 1
    /\ tally = CountsInit
    /\ stream_data = NoAnalytics
    /\ summary_data = NoAnalytics
    /\ ppc = "fetched"

IdlePass ==
    /\ item_relations = <<>>
    /\ details_ok = TRUE
    /\ associated = <<>>
    /\ aidx = 1
    /\ tally = CountsInit
    /\ stream_data = NoAnalytics
    /\ summary_data = NoAnalytics
    /\ ppc = "idle"

\* "Step 2: Get PR data"
GetPrData ==
    /\ ppc = "fetched"
    /\ associated' = AttachPrData(item_relations, details_ok)
    /\ ppc' = "loop"
    /\ UNCHANGED <<item_relations, details_ok, aidx, tally, stream_data, summary_data, notPass>>

\* "Step 3": one iteration of `for item in work_items`
AnalyzeItem ==
    /\ ppc = "loop"
    /\ aidx <= Len(associated)
    /\ tally' = CountLinks(tally, associated[aidx])
    /\ aidx' = aidx + 1
    /\ UNCHANGED <<item_relations, details_ok, associated, stream_data, summary_data, ppc, notPass>>

\* the return of get_streamlined_analytics
ReturnStreamlined ==
    /\ ppc = "loop"
    /\ aidx > Len(associated)
    /\ stream_data' = [status |-> "success"] @@ StreamlinedData(Len(associated), tally)
    /\ ppc' = "streamlined"
    /\ UNCHANGED <<item_relations, details_ok, associated, aidx, tally, summary_data, notPass>>

\* get_analytics_summary with include_pr_analysis: its work items come from
\* get_work_items, that is from _get_work_item_basic_details
SummarizeWorkItems ==
    /\ ppc = "streamlined"
    /\ summary_data' = [status |-> "success",
                        total_work_items |-> Len(item_relations),
                        work_items_with_prs |-> WorkItemsWithPrs(BasicDetails(item_relations))]
    /\ ppc' = "done"
    /\ UNCHANGED <<item_relations, details_ok, associated, aidx, tally, stream_data, notPass>>

NextPass == GetPrData \/ AnalyzeItem \/ ReturnStreamlined \/ SummarizeWorkItems

----------------------------------------------------------------------------
(* /api/azuredevops/repositories and /api/azuredevops/analytics answered   *)
(* one after the other on the module-level client                          *)

\* most requests answered
MaxServed == 3

\* query strings of /api/azuredevops/analytics: a missing parameter reads
\* as the empty string
AnalyticsArgs ==
    [org : {"", "o1", "o2"}, project : {"p1"}, area_path : {"", "a1"}]

\* query strings of /api/azuredevops/repositories: None is a parameter the
\* query string does not hold
RepositoriesArgs ==
    [org : {None, Some("o1"), Some("o2")},
     project : {None, Some("p1")},
     area_path : {None, Some(""), Some("a1")}]

\* request.args.get(key, default)
ArgsGet(arg, default) == IF arg = None THEN default ELSE arg[1]

\* get_azuredevops_repositories up to the call of
\* get_streamlined_analytics: the client fields after the three `if`s
RepositoriesClient(c, args) ==
    LET org == ArgsGet(args.org, c.organization)
        project == ArgsGet(args.project, c.project)
        area_path == ArgsGet(args.area_path, c.area_path)
    IN  [organization |-> IF org # "" THEN org ELSE c.organization,
         project |-> IF project # "" THEN project ELSE c.project,
         area_path |-> IF area_path # "" THEN area_path ELSE c.area_path]

InitServe ==
    /\ azuredevops_analytics = ClientInit
    /\ served = <<>>

IdleServe ==
    /\ azuredevops_analytics = ClientInit
    /\ served = << >>

\* get_azuredevops_analytics: 400 without org or project, otherwise the
\* client takes the request's values and get_streamlined_analytics runs
ServeAnalytics ==
    /\ Len(served) < MaxServed
    /\ \E args \in AnalyticsArgs :
          IF args.org = "" \/ args.project = ""
          THEN /\ served' = Append(served, [endpoint |-> "analytics", args |-> args,
                                            status |-> 400, answered_for |-> None])
               /\ UNCHANGED azuredevops_analytics
          ELSE /\ azuredevops_analytics' =
                     [organization |-> args.org, project |-> args.project,
                      area_path |-> args.area_path]
               /\ served' = Append(served, [endpoint |-> "analytics", args |-> args,
                                            status |-> 200,
                                            answered_for |-> Some(azuredevops_analytics')])
    /\ UNCHANGED notServe

\* get_azuredevops_repositories: get_streamlined_analytics reads
\* organization, project and area path from the client
ServeRepositories ==
    /\ Len(served) < MaxServed
    /\ \E args \in RepositoriesArgs :
          /\ azuredevops_analytics' = RepositoriesClient(azuredevops_analytics, args)
          /\ served' = Append(served, [endpoint |-> "repositories", args |-> args,
                                       status |-> 200,
                                       answered_for |-> Some(azuredevops_analytics')])
    /\ UNCHANGED notServe

NextServe == ServeAnalytics \/ ServeRepositories

----------------------------------------------------------------------------
(* ContextStorage: the methods that take self.lock, called from threads    *)

\* most calls one thread makes
MaxCalls == 2

\* the threads calling the storage
Threads == {1, 2}

Unlocked == 0

UpdateMethods ==
    { "update_datadog_context", "update_datadog_logs_context", "update_github_context",
      "update_azuredevops_context", "update_figma_context" }

LockingMethods == UpdateMethods \cup {"clear_context", "save_context"}

\* the statements between `with self.lock:` and self.save_context() can
\* raise in the update methods (an argument that is no dict, a loaded
\* context without the expected keys); clear_context only assigns a literal
CanRaise(method) == method \in UpdateMethods

NotCalling == "none"

InitLock ==
    /\ lock = Unlocked
    /\ callers = [t \in Threads |-> [method |-> NotCalling, pc |-> "idle", calls |-> 0, saved |-> 0]]

IdleLock ==
    /\ lock = Unlocked
    /\ callers = [t \in Threads |-> [method |-> NotCalling, pc |-> "idle", calls |-> MaxCalls, saved |-> 0]]

\* a thread calls one of the methods
Call(t) ==
    /\ callers[t].pc = "idle"
    /\ callers[t].calls < MaxCalls
    /\ \E method \in LockingMethods :
          callers' = [callers EXCEPT ![t] =
                         [method |-> method,
                          pc |-> IF method = "save_context" THEN "save" ELSE "enter",
                          calls |-> @.calls + 1,
                          saved |-> @.saved]]
    /\ UNCHANGED <<lock, notLock>>

\* `with self.lock:` of an update method or of clear_context:
\* threading.Lock.acquire blocks while the lock is held, by whichever thread
Acquire(t) ==
    /\ callers[t].pc = "enter"
    /\ lock = Unlocked
    /\ lock' = t
    /\ callers' = [callers EXCEPT ![t].pc = "body"]
    /\ UNCHANGED notLock

\* the statements under the lock raise: the `with` releases the lock, the
\* `except` prints and the method returns
RaiseInBody(t) ==
    /\ callers[t].pc = "body"
    /\ CanRaise(callers[t].method)
    /\ lock' = Unlocked
    /\ callers' = [callers EXCEPT ![t].pc = "idle", ![t].method = NotCalling]
    /\ UNCHANGED notLock

\* the statements under the lock up to the call self.save_context()
CallSaveContext(t) ==
    /\ callers[t].pc = "body"
    /\ callers' = [callers EXCEPT ![t].pc = "save"]
    /\ UNCHANGED <<lock, notLock>>

\* `with self.lock:` of save_context: the lock is not reentrant, so the
\* thread waits here also when it holds the lock itself
SaveAcquire(t) ==
    /\ callers[t].pc = "save"
    /\ lock = Unlocked
    /\ lock' = t
    /\ callers' = [callers EXCEPT ![t].pc = "write"]
    /\ UNCHANGED notLock

\* save_context writes the file (or fails to), leaves its `with` and
\* returns
SaveReturn(t) ==
    /\ callers[t].pc = "write"
    /\ lock' = Unlocked
    /\ callers' = [callers EXCEPT ![t].pc = "idle", ![t].method = NotCalling,
                                   ![t].saved = @ + 1]
    /\ UNCHANGED notLock

ThreadStep(t) ==
    \/ Call(t)
    \/ Acquire(t)
    \/ RaiseInBody(t)
    \/ CallSaveContext(t)
    \/ SaveAcquire(t)
    \/ SaveReturn(t)

NextLock == \E t \in Threads : ThreadStep(t)

\* every thread keeps running, and a thread waiting for the lock gets it
\* if the lock is free again and again
LockFairness ==
    \A t \in Threads :
        /\ WF_vars(ThreadStep(t))
        /\ SF_vars(Acquire(t))
        /\ SF_vars(SaveAcquire(t))

----------------------------------------------------------------------------
(* Specifications: one per component, the other components at rest         *)

InitAggSpec ==
    /\ InitAgg
    /\ IdleReq
    /\ IdleRes
    /\ IdleLink
    /\ IdleSort
    /\ IdleBatch
    /\ IdlePass
    /\ IdleServe
    /\ IdleLock

SpecAgg == InitAggSpec /\ [][NextAgg]_vars

InitReqSpec ==
    /\ IdleAgg
    /\ InitReq
    /\ IdleRes
    /\ IdleLink
    /\ IdleSort
    /\ IdleBatch
    /\ IdlePass
    /\ IdleServe
    /\ IdleLock

SpecReq == InitReqSpec /\ [][NextReq]_vars

InitResSpec ==
    /\ IdleAgg
    /\ IdleReq
    /\ InitRes
    /\ IdleLink
    /\ IdleSort
    /\ IdleBatch
    /\ IdlePass
    /\ IdleServe
    /\ IdleLock

SpecRes == InitResSpec /\ [][NextRes]_vars

InitLinkSpec ==
    /\ IdleAgg
    /\ IdleReq
    /\ IdleRes
    /\ InitLink
    /\ IdleSort
    /\ IdleBatch
    /\ IdlePass
    /\ IdleServe
    /\ IdleLock

SpecLink == InitLinkSpec /\ [][NextLink]_vars

InitSortSpec ==
    /\ IdleAgg
    /\ IdleReq
    /\ IdleRes
    /\ IdleLink
    /\ InitSort
    /\ IdleBatch
    /\ IdlePass
    /\ IdleServe
    /\ IdleLock

SpecSort == InitSortSpec /\ [][NextSort]_vars

InitBatchSpec ==
    /\ IdleAgg
    /\ IdleReq
    /\ IdleRes
    /\ IdleLink
    /\ IdleSort
    /\ InitBatch
    /\ IdlePass
    /\ IdleServe
    /\ IdleLock

SpecBatch == InitBatchSpec /\ [][NextBatch]_vars

InitPassSpec ==
    /\ IdleAgg
    /\ IdleReq
    /\ IdleRes
    /\ IdleLink
    /\ IdleSort
    /\ IdleBatch
    /\ InitPass
    /\ IdleServe
    /\ IdleLock

SpecPass == InitPassSpec /\ [][NextPass]_vars

InitServeSpec ==
    /\ IdleAgg
    /\ IdleReq
    /\ IdleRes
    /\ IdleLink
    /\ IdleSort
    /\ IdleBatch
    /\ IdlePass
    /\ InitServe
    /\ IdleLock

SpecServe == InitServeSpec /\ [][NextServe]_vars

InitLockSpec ==
    /\ IdleAgg
    /\ IdleReq
    /\ IdleRes
    /\ IdleLink
    /\ IdleSort
    /\ IdleBatch
    /\ IdlePass
    /\ IdleServe
    /\ InitLock

SpecLock == InitLockSpec /\ [][NextLock]_vars

SpecBatchFair == SpecBatch /\ WF_vars(NextBatch)

SpecLockFair == SpecLock /\ LockFairness

Init ==
    \/ InitAggSpec
    \/ InitReqSpec
    \/ InitResSpec
    \/ InitLinkSpec
    \/ InitSortSpec
    \/ InitBatchSpec
    \/ InitPassSpec
    \/ InitServeSpec
    \/ InitLockSpec

Next ==
    \/ NextAgg
    \/ NextReq
    \/ NextRes
    \/ NextLink
    \/ NextSort
    \/ NextBatch
    \/ NextPass
    \/ NextServe
    \/ NextLock

Spec == Init /\ [][Next]_vars

----------------------------------------------------------------------------
(* Claims about get_multi_repo_analytics                                   *)

CountFields == {"total_prs", "open_prs", "closed_prs", "merged_prs"}

AvgFields ==
    {"average_additions", "average_deletions", "average_commits",
     "average_changed_files"}

\* sum of a sequence of numbers
RECURSIVE SumSeq(_)
SumSeq(s) == IF s = <<>> THEN 0 ELSE Head(s) + SumSeq(Tail(s))

\* sum of one field over the rows of a per-repository breakdown
RECURSIVE BreakdownSum(_, _, _)
BreakdownSum(m, S, field) ==
    IF S = {} THEN 0
    ELSE LET r == CHOOSE x \in S : TRUE
         IN  m[r][field] + BreakdownSum(m, S \ {r}, field)

\* C1 (as claimed): after get_multi_repo_analytics returns, each of
\* total_prs, open_prs, closed_prs and merged_prs of the combined data equals
\* the sum of the same field over the entries of the per-repository
\* breakdown `repositories` of the same result, for every input list,
\* repeated entries included.
C1_TotalsEqualBreakdownSum ==
    apc = "done" =>
        \A f \in CountFields :
            combined[f] = BreakdownSum(combined.repositories,
                                       DOMAIN combined.repositories, f)

\* entry i was fetched successfully and has total_prs > 0
Weighs(i) == fetched[i].status = "success" /\ fetched[i].data.total_prs > 0

\* SUM(total_prs) over the successfully fetched entries with total_prs > 0
WeightSum ==
    SumSeq([i \in 1 .. Len(fetched) |->
               IF Weighs(i) THEN fetched[i].data.total_prs ELSE 0])

\* SUM(average * total_prs) over the same entries, for one average field
WeightedSum(field) ==
    SumSeq([i \in 1 .. Len(fetched) |->
               IF Weighs(i)
               THEN fetched[i].data[field] * fetched[i].data.total_prs
               ELSE 0])

\* C2: for every input list (integer per-repository averages), each combined
\* average satisfies combined_average * SUM(total_prs) = SUM(average *
\* total_prs), both sums over the entries of the list that were fetched
\* successfully and have total_prs > 0 (an entry with total_prs = 0 is in
\* neither sum, whatever its average); if there is no such entry the
\* combined average is 0.
C2_WeightedAverage ==
    apc = "done" =>
        \A f \in AvgFields :
            /\ combined[f].den > 0
            /\ combined[f].num * WeightSum = combined[f].den * WeightedSum(f)
            /\ WeightSum = 0 => combined[f].num = 0

\* C2 witness: a repository with one pull request and average_additions 6,
\* one with two pull requests and average_additions 0: the combined
\* average_additions is 6 / 3 = 2 (the unweighted mean would be 3)
C2_Witness ==
    /\ apc = "done"
    /\ Len(fetched) = 2
    /\ Weighs(1) /\ Weighs(2)
    /\ fetched[1].data.total_prs = 1 /\ fetched[1].data.average_additions = 6
    /\ fetched[2].data.total_prs = 2 /\ fetched[2].data.average_additions = 0
    /\ combined.average_additions = [num |-> 2, den |-> 1]

\* repo does not split into exactly two non-empty segments on '/'
Malformed(repo) ==
    LET parts == Split(repo, <<"/">>)
    IN  ~(Len(parts) = 2 /\ parts[1] # <<>> /\ parts[2] # <<>>)

\* entry i is malformed, or its fetch returned a non-success status or raised
Removed(i) == Malformed(repos[i]) \/ fetched[i].status # "success"

\* the loop of get_multi_repo_analytics over the entries i .. Len(repos)
\* that are not Removed, each with the summary its fetch returned
RECURSIVE RunKept(_, _)
RunKept(st, i) ==
    IF i > Len(repos) THEN st
    ELSE RunKept(IF Removed(i) THEN st ELSE ProcessOne(st, repos[i], fetched[i]),
                 i + 1)

\* C3: get_multi_repo_analytics never raises (every iteration is taken by
\* some branch until the function returns), and its result for a list L is
\* its result for L with every malformed entry and every entry whose fetch
\* returned a non-success status or raised removed.
C3_FailuresAddNothing ==
    /\ apc = "loop" => ENABLED NextAgg
    /\ apc = "done" =>
          /\ Len(fetched) = Len(repos)
          /\ combined = Finish(RunKept([combined |-> CombinedInit, acc |-> AccInit], 1))

\* C3 witness: a returned call whose list holds a removed entry and a
\* successfully fetched repository with pull requests
C3_Witness ==
    /\ apc = "done"
    /\ \E i, j \in 1 .. Len(repos) :
          /\ Removed(i)
          /\ ~Removed(j) /\ fetched[j].data.total_prs > 0
    /\ combined.total_prs > 0

----------------------------------------------------------------------------
(* Claims about the Azure DevOps request handlers                          *)

\* C4 (as claimed): when two Azure DevOps analytics requests with different
\* org/project/area_path are served concurrently, every vendor call made on
\* behalf of a request uses that request's own org, project and area_path.
C4_CallsUseOwnParameters ==
    \A r \in Requests :
        \A i \in 1 .. Len(req[r].calls) :
            LET call == req[r].calls[i]
            IN  /\ call.org = req[r].params.org
                /\ call.project = req[r].params.project
                /\ call.kind = "wiql" =>
                      /\ call.area_path = req[r].params.area_path
                      /\ call.team_project = req[r].params.project


----------------------------------------------------------------------------
(* Claims about the repository identifier resolver                         *)

IsGitHubPath(p) == StartsWith(p, GitHubSlash)

\* the iterations of the loop that have run
Processed == 1 .. (ridx - 1)

\* the entry appended by iteration i (a 'GitHub/...' path)
EntryAt(i) == resolved_repos[Len(SelectSeq(SubSeq(involved, 1, i), IsGitHubPath))]

\* the id is a known id or a truncation of one
InStaticTable(id) == \E k \in 1 .. Len(KnownRepos) : StartsWith(KnownRepos[k].id, id)

\* the first known id, in table order, the id equals or is a truncation of
StaticOwnerRepo(id) ==
    LET exact == { k \in 1 .. Len(KnownRepos) : KnownRepos[k].id = id }
        partial == { k \in 1 .. Len(KnownRepos) : StartsWith(KnownRepos[k].id, id) }
        k == IF exact # {} THEN CHOOSE x \in exact : TRUE
             ELSE CHOOSE x \in partial : \A y \in partial : x <= y
    IN  TrOwner \o <<"/">> \o KnownRepos[k].repo_name

LookupFailed(i) == lookups[i].kind \in {"raise", "not_found", "not_attempted"}

\* C5: an entry has resolved = true only when its github_repo came from
\* the authoritative lookup or from the static table; when the lookup fails
\* and the id matches no static-table entry the entry has resolved = false.
C5_ResolvedOnlyWhenAuthoritative ==
    \A i \in Processed :
        IsGitHubPath(involved[i]) =>
            LET e == EntryAt(i)
            IN  /\ e.resolved => (lookups[i].kind = "ok" \/ InStaticTable(e.repository_id))
                /\ (LookupFailed(i) /\ ~InStaticTable(e.repository_id)) => ~e.resolved

\* C6: every 'GitHub/<id>' path gets an entry whose github_repo is not
\* empty, and when no layer succeeds (the lookup gives nothing and the id is
\* unknown to the static table) github_repo is exactly 'owner/repo-'
\* followed by the first 8 characters of the id.
C6_PlaceholderWhenNoLayerSucceeds ==
    \A i \in Processed :
        IsGitHubPath(involved[i]) =>
            LET n == Len(SelectSeq(SubSeq(involved, 1, i), IsGitHubPath))
                id == Replace(involved[i], GitHubSlash, <<>>)
            IN  /\ n <= Len(resolved_repos)
                /\ resolved_repos[n].github_repo # <<>>
                /\ (LookupFailed(i) /\ ~InStaticTable(id)) =>
                      resolved_repos[n].github_repo
                          = OwnerWord \o <<"/">> \o RepoDash \o Take(id, 8)

\* the remote URLs of the model that name a GitHub owner/repo
GitHubRemotes == {RemoteHttps, RemoteSsh}

YieldsGitHub(i) == lookups[i].kind = "ok" /\ lookups[i].remote_url \in GitHubRemotes

\* C7 as stated: whenever the lookup does not yield a GitHub owner/repo
\* (error, non-success status, or a remote URL that is not a GitHub one) an id
\* that equals or is a truncation of a known id resolves to that known id's
\* owner/repo; the table is never used when the lookup yields a GitHub
\* owner/repo.
C7_TableWheneverNoGitHubRemote ==
    \A i \in Processed :
        (IsGitHubPath(involved[i]) /\ lookups[i].kind # "not_attempted") =>
            LET e == EntryAt(i)
            IN  /\ (~YieldsGitHub(i) /\ InStaticTable(e.repository_id)) =>
                      e.github_repo = StaticOwnerRepo(e.repository_id)
                /\ YieldsGitHub(i) => e.github_repo = AcmeWeb

\* C7 (amended): when the lookup is attempted and raises or answers with
\* a non-success status, an id that equals a known id, or failing that is a
\* truncation of one (the first in table order), resolves to that known id's
\* owner/repo; when the lookup answers with success the table is not used: a
\* GitHub remote gives its owner/repo and any other remote gives
\* 'azuredevops/<name>'.
C7_TableOnlyWhenLookupFails ==
    \A i \in Processed :
        (IsGitHubPath(involved[i]) /\ lookups[i].kind # "not_attempted") =>
            LET e == EntryAt(i)
            IN  /\ (lookups[i].kind \in {"raise", "not_found"}
                        /\ InStaticTable(e.repository_id)) =>
                      e.github_repo = StaticOwnerRepo(e.repository_id)
                /\ YieldsGitHub(i) => e.github_repo = AcmeWeb
                /\ (lookups[i].kind = "ok" /\ ~YieldsGitHub(i)) =>
                      e.github_repo = AzureDevOpsOwner \o <<"/">> \o lookups[i].name

\* a failed lookup for a truncated known id was resolved through the table
C7_Witness ==
    \E i \in Processed :
        /\ involved[i] = GitHubSlash \o Take(KnownId3, 8)
        /\ lookups[i].kind = "not_found"
        /\ EntryAt(i).github_repo = TrOwner \o <<"/">> \o KnownName3


----------------------------------------------------------------------------
(* Claims about link extraction                                            *)

\* the loop of _extract_pr_links handles the relation at lidx in this step
HandlesRelation == lpc = "loop" /\ lidx <= Len(relations) /\ lidx' = lidx + 1

\* this step appends exactly one record to pr_links and changes no other
AppendsOne == Len(pr_links') = Len(pr_links) + 1 /\ SubSeq(pr_links', 1, Len(pr_links)) = pr_links

Appended == pr_links'[Len(pr_links')]

\* URLs of the commit scheme with the repo-id and the hash they are built from
CommitCases ==
    { [id |-> UnknownLongId, hash |-> LongHash],
      [id |-> UnknownShortId, hash |-> ShortHash] }

CommitUrl(c) == VstfsGitHubCommit \o c.id \o PercentTwoF \o c.hash

YieldsCommitRecord(c) ==
    /\ AppendsOne
    /\ Appended.platform = "GitHub"
    /\ Appended.repository_id = Some(c.id)
    /\ Appended.full_repo_path = GitHubSlash \o c.id
    /\ IsCommit(Appended)
    /\ Appended.pr_number = CommitDash \o Take(c.hash, 8)

C9_GithubPullUrlYieldsOneRecord ==
    [][(/\ HandlesRelation
        /\ relations[lidx].url
              = HttpsGithubCom \o Acme \o <<"/">> \o Web \o SlashPullSlash \o PrNumber7)
       => /\ AppendsOne
          /\ Appended.platform = "GitHub"
          /\ Appended.full_repo_path = Acme \o <<"/">> \o Web
          /\ Appended.repository = Web
          /\ Appended.pr_number = PrNumber7]_vars

\* a relation of a type outside the link types, with a GitHub pull URL, has
\* been handled and gave a record
C9_Witness ==
    /\ lidx > 1
    /\ relations[1].rel = RelRelated
    /\ relations[1].url \in GithubPullUrls
    /\ pr_links # <<>>
    /\ pr_links[1].url = relations[1].url
    /\ pr_links[1].full_repo_path = AcmeWeb

PullRequestUrl == VstfsGitHubPullRequest \o UnknownLongId \o PercentTwoF \o PrNumber42

YieldsPullRequestRecord ==
    /\ AppendsOne
    /\ Appended.platform = "GitHub"
    /\ Appended.repository_id = Some(UnknownLongId)
    /\ Appended.pr_number = PrNumber42
    /\ ~IsCommit(Appended)

\* C10 as stated: a relation of any type whose URL follows the GitHub
\* pull-request scheme is accepted and yields a record with platform GitHub,
\* repository_id the repo-id, reference the pr-number and is_commit false.
C10_PullRequestLinkWhateverType ==
    [][(HandlesRelation /\ relations[lidx].url = PullRequestUrl)
       => YieldsPullRequestRecord]_vars

\* C10 (amended): a relation of type ArtifactLink or Hyperlink whose URL
\* follows the GitHub pull-request scheme (repo-id not empty and free of '%',
\* pr-number in decimal digits) is accepted and yields a record with platform
\* GitHub, repository_id the repo-id, reference the pr-number and is_commit
\* false.
C10_PullRequestLinkOnLinkTypes ==
    [][(/\ HandlesRelation
        /\ relations[lidx].rel \in {RelArtifactLink, RelHyperlink}
        /\ relations[lidx].url = PullRequestUrl)
       => YieldsPullRequestRecord]_vars

\* a Hyperlink relation with a pull-request URL has been handled
C10_Witness ==
    /\ lidx > 1
    /\ relations[1].rel = RelHyperlink
    /\ relations[1].url = PullRequestUrl
    /\ pr_links # <<>>
    /\ pr_links[1].repository_id = Some(UnknownLongId)
    /\ pr_links[1].pr_number = PrNumber42


\* URLs with a vendor-hosted git pull-request path, of repository 'web' and
\* pull request 5
AzurePrUrls == {AzureGitPrUrl, AzureApiPrUrl, AzureGithubProjectPrUrl}

\* C11: a relation whose URL contains a vendor-hosted git pull-request
\* path, in the path form or the API form, yields a record with platform
\* Azure DevOps, repository {repo} and reference {id}, whatever else the URL
\* contains.
C11_AzurePrUrlYieldsAzureRecord ==
    [][(HandlesRelation /\ relations[lidx].url \in AzurePrUrls)
       => /\ AppendsOne
          /\ Appended.platform = "Azure DevOps"
          /\ Appended.repository = Web
          /\ Appended.pr_number = PrNumber5]_vars


\* the candidates of the model whose URL has none of the URL shapes
UnparsedCandidates ==
    { [rel |-> RelArtifactLink, url |-> DocsUrl],
      [rel |-> RelHyperlink, url |-> PrPathUrl] }

NonMatching ==
    [rel : {RelHyperlink, RelRelated}, url : VstfsCommitUrls \cup {DocsUrl}]
        \cup { [rel |-> RelRelated, url |-> u] : u \in VstfsPullRequestUrls }

\* C13: a relation that matches none of the classification rules gives
\* no record, so a work item none of whose relations match (or with no
\* relation) ends with an empty list: there are at most as many records as
\* relations handled that match a rule.
C13_NoMatchNoRecord ==
    Len(pr_links) <= Cardinality({ i \in 1 .. (lidx - 1) : relations[i] \notin NonMatching })

\* a work item with two relations, none matching, has been finished
C13_Witness ==
    /\ lpc = "done"
    /\ Len(relations) = 2
    /\ \A i \in 1 .. 2 : relations[i] \in NonMatching
    /\ pr_links = <<>>

\* a work item with no relation has been finished
C13_WitnessNoRelations == lpc = "done" /\ relations = <<>> /\ pr_links = <<>>


\* C14: for every link produced, the is_commit flag reported for it is
\* true exactly when its reference starts with 'commit-'.
C14_IsCommitIffCommitPrefix ==
    \A j \in 1 .. Len(pr_links) :
        IsCommit(pr_links[j]) <=> StartsWith(pr_links[j].pr_number, CommitDash)


----------------------------------------------------------------------------
(* Claims about the final sort of recent_prs                               *)

\* the place of the i-th entry when the entries are ordered by created_at,
\* newest first, entries of the same created_at in their order of arrival
PlaceOf(i) ==
    1 + Cardinality({ k \in 1 .. Len(recent_in) :
                        \/ recent_in[k].created_at > recent_in[i].created_at
                        \/ /\ recent_in[k].created_at = recent_in[i].created_at
                           /\ k < i })

\* C15: the combined recent_prs has at most 20 entries, is ordered by
\* created_at descending, and entries of equal created_at keep the order in
\* which they were concatenated.
C15_RecentSortedStableCapped ==
    spc = "done" =>
        /\ Len(recent_out) <= 20
        /\ Len(recent_out) = Min(Len(recent_in), 20)
        /\ \A i \in 1 .. Len(recent_in) :
              PlaceOf(i) <= 20 => recent_out[PlaceOf(i)] = recent_in[i]

\* a list of more than 20 entries with equal dates among them has been sorted
C15_Witness ==
    /\ spc = "done"
    /\ Len(recent_in) > 20
    /\ \E i, j \in 1 .. Len(recent_in) :
          i < j /\ recent_in[i].created_at = recent_in[j].created_at
    /\ \E i, j \in 1 .. Len(recent_in) :
          i < j /\ recent_in[i].created_at < recent_in[j].created_at
    /\ Len(recent_out) = 20

\* ---- the summary table ----

\* the number written by a string of decimal digits
RECURSIVE NumberOf(_)
NumberOf(digits) ==
    IF digits = <<>> THEN 0
    ELSE 10 * NumberOf(SubSeq(digits, 1, Len(digits) - 1))
         + (CHOOSE d \in 0 .. 9 : DecimalDigits[d + 1] = digits[Len(digits)])

\* the text between <strong> and </strong>
Unwrapped(cell) ==
    SubSeq(cell, Len(StrongOpen) + 1, Len(cell) - Len(StrongClose))

IsStrong(cell) ==
    /\ Len(cell) >= Len(StrongOpen) + Len(StrongClose)
    /\ cell = Strong(Unwrapped(cell))

\* the counts the breakdown holds for a repository, zeros when it has none
BreakdownCounts(repo) ==
    IF repo \in DOMAIN combined.repositories
    THEN << combined.repositories[repo].total_prs, combined.repositories[repo].open_prs,
            combined.repositories[repo].closed_prs, combined.repositories[repo].merged_prs >>
    ELSE <<0, 0, 0, 0>>

\* C16 as stated: the Merge Rate cell of every repository row and of the
\* TOTAL row whose total PR count is 0 is exactly the string "0%".
C16_ZeroTotalCellIsZeroPercent ==
    apc = "tabled" =>
        /\ \A i \in 1 .. Len(repos) :
              BreakdownCounts(repos[i])[1] = 0 => table.rows[i][6] = ZeroPercent
        /\ combined.total_prs = 0 => table.rows[Len(repos) + 1][6] = ZeroPercent

\* C16: the Merge Rate cell of every repository row whose total PR count is 0
\* is exactly "0%", and the Merge Rate cell of the TOTAL row whose total PR
\* count is 0 is "0%" inside the <strong> markup of that row; the table is
\* made for every input (no division by zero).
C16_ZeroTotalRateIsZeroPercent ==
    apc = "tabled" =>
        /\ Len(table.rows) = Len(repos) + 1
        /\ \A i \in 1 .. Len(repos) :
              BreakdownCounts(repos[i])[1] = 0 => table.rows[i][6] = ZeroPercent
        /\ combined.total_prs = 0 =>
              table.rows[Len(repos) + 1][6] = StrongOpen \o ZeroPercent \o StrongClose

\* a table with a repository row of total 0 beside a repository of total > 0
C16_Witness ==
    /\ apc = "tabled"
    /\ \E i, j \in 1 .. Len(repos) :
          /\ BreakdownCounts(repos[i])[1] = 0
          /\ BreakdownCounts(repos[j])[1] > 0
          /\ table.rows[i][6] = ZeroPercent

\* a table whose TOTAL row has total 0
C16_WitnessTotal ==
    /\ apc = "tabled"
    /\ Len(repos) > 0
    /\ combined.total_prs = 0
    /\ table.rows[Len(repos) + 1][6] = StrongOpen \o ZeroPercent \o StrongClose

\* C17: the table has the six headers and len(repos) + 1 rows; row i names
\* repos[i] and carries its total/open/closed/merged of the breakdown (zeros
\* when the breakdown has no entry for it); the last row is the TOTAL row
\* with the grand totals of the result.
C17_TableRows ==
    apc = "tabled" =>
        /\ table.headers = <<"Repository", "Total PRs", "Open", "Closed", "Merged", "Merge Rate">>
        /\ Len(table.rows) = Len(repos) + 1
        /\ \A i \in 1 .. Len(repos) :
              /\ Len(table.rows[i]) = 6
              /\ table.rows[i][1] = repos[i]
              /\ \A k \in 1 .. 4 :
                    NumberOf(table.rows[i][k + 1]) = BreakdownCounts(repos[i])[k]
        /\ LET last == table.rows[Len(repos) + 1]
           IN  /\ Len(last) = 6
               /\ \A k \in 1 .. 6 : IsStrong(last[k])
               /\ Unwrapped(last[1]) = TotalWord
               /\ NumberOf(Unwrapped(last[2])) = combined.total_prs
               /\ NumberOf(Unwrapped(last[3])) = combined.open_prs
               /\ NumberOf(Unwrapped(last[4])) = combined.closed_prs
               /\ NumberOf(Unwrapped(last[5])) = combined.merged_prs

\* a table of two repositories, the first of which contributed nothing while
\* the second has pull requests
C17_Witness ==
    /\ apc = "tabled"
    /\ Len(repos) = 2
    /\ repos[1] \notin DOMAIN combined.repositories
    /\ repos[2] \in DOMAIN combined.repositories
    /\ combined.repositories[repos[2]].total_prs > 0
    /\ Len(table.rows) = 3

\* ---- the status of the work-item aggregator ----

\* C19: a request whose work-item query succeeded with zero work items is
\* answered with status 'success' and zero work items, and a request whose
\* work-item fetch failed is not answered with status 'success'.
C19_StatusSeparatesFailureFromZeroData ==
    \A r \in Requests :
        (req[r].pc = "done" /\ req[r].status = 200) =>
            /\ req[r].work_items = "empty" =>
                  /\ req[r].result.status = "success"
                  /\ req[r].result.total_work_items = 0
            /\ req[r].work_items = "None" => req[r].result.status # "success"

\* ---- the empty result and the merged mappings ----

\* C18: for the empty list, and for a list none of whose entries yields a
\* summary (every entry malformed, refused, failed or raising), the call
\* returns status 'success' with the four totals 0, the four averages 0,
\* empty prs_by_author and prs_by_day, empty recent_prs and an empty
\* breakdown; every iteration is taken by some branch (nothing raises).
C18_EmptyResultIsSuccess ==
    /\ apc = "loop" => ENABLED (SkipMalformed \/ ProcessRepo \/ Finalize)
    /\ (apc = "done" /\ \A i \in 1 .. Len(repos) : Removed(i)) =>
          /\ AnalyticsResult.status = "success"
          /\ \A f \in {"total_prs", "open_prs", "closed_prs", "merged_prs"} :
                AnalyticsResult.data[f] = 0
          /\ \A f \in {"average_additions", "average_deletions",
                       "average_commits", "average_changed_files"} :
                AnalyticsResult.data[f].num = 0
          /\ DOMAIN AnalyticsResult.data.prs_by_author = {}
          /\ DOMAIN AnalyticsResult.data.prs_by_day = {}
          /\ AnalyticsResult.data.recent_prs = <<>>
          /\ DOMAIN AnalyticsResult.data.repositories = {}

\* a returned call on the empty list
C18_WitnessEmptyList ==
    /\ apc = "done"
    /\ repos = <<>>
    /\ AnalyticsResult.status = "success"

\* a returned call on two entries, one refused for its empty segment and one
\* whose fetch failed or raised
C18_Witness ==
    /\ apc = "done"
    /\ Len(repos) = 2
    /\ Malformed(repos[1]) /\ fetched[1].status = "error"
    /\ ~Malformed(repos[2]) /\ fetched[2].status \in {"error", "raise"}
    /\ AnalyticsResult.status = "success"

\* the entries of repos whose fetch returned a summary
Fetched == { i \in 1 .. Len(fetched) : fetched[i].status = "success" }

\* the sum over the entries i .. Len(fetched) of Fetched of the count the
\* mapping `field` of the summary holds at key k
RECURSIVE SumOfCounts(_, _, _)
SumOfCounts(field, k, i) ==
    IF i > Len(fetched) THEN 0
    ELSE (IF i \in Fetched /\ k \in DOMAIN fetched[i].data[field]
          THEN fetched[i].data[field][k] ELSE 0)
         + SumOfCounts(field, k, i + 1)

\* C20: in the combined result the key set of prs_by_author (and of
\* prs_by_day) is the union of the key sets of the successfully fetched
\* repositories' mappings, and the value at each key is the sum of that
\* key's counts over those repositories.
C20_MappingsAreUnionSums ==
    apc = "done" =>
        \A field \in {"prs_by_author", "prs_by_day"} :
            /\ DOMAIN combined[field] =
                  UNION { DOMAIN fetched[i].data[field] : i \in Fetched }
            /\ \A k \in DOMAIN combined[field] :
                  combined[field][k] = SumOfCounts(field, k, 1)

\* two fetched repositories share an author and a day, and each mapping has
\* a key that only one of them holds
C20_Witness ==
    /\ apc = "done"
    /\ Fetched = {1, 2}
    /\ \A field \in {"prs_by_author", "prs_by_day"} :
          /\ \E k \in DOMAIN fetched[1].data[field] \cap DOMAIN fetched[2].data[field] :
                combined[field][k] = fetched[1].data[field][k] + fetched[2].data[field][k]
          /\ DOMAIN fetched[1].data[field] # DOMAIN fetched[2].data[field]

\* ---- the batch form of the resolver ----

\* the 'GitHub/<id>' paths among the inputs, in input order
GitHubPaths == SelectSeq(involved, IsGitHubPath)

\* the PR links the pass counted for the path of iteration i
LinksOf(i) == link_counts[i]

\* C21: the returned list has exactly one entry for each internal id among
\* the inputs (each path 'GitHub/<id>'), in input order, and the entry's
\* pr_count is the number of links the pass counted for exactly that id
\* (0 if none); no id receives the count of another id.
C21_OneEntryPerIdWithItsOwnCount ==
    rpc = "done" =>
        /\ Len(resolved_repos) = Len(GitHubPaths)
        /\ \A n \in 1 .. Len(GitHubPaths) :
              /\ resolved_repos[n].full_path = GitHubPaths[n]
              /\ GitHubSlash \o resolved_repos[n].repository_id = GitHubPaths[n]
        /\ \A i \in 1 .. Len(involved) :
              IsGitHubPath(involved[i]) => EntryAt(i).pr_count = LinksOf(i)

\* ---- enrichment ----

\* the detail request issued in this step, if any
IssuedNow == SubSeq(detail_fetches', Len(detail_fetches) + 1, Len(detail_fetches'))

\* C22: when the detail request for an accepted candidate fails, the
\* candidate's record is still appended, its extracted fields
\* (relation_type, url, repository, reference id, platform, full_repo_path,
\* repository_id, commit_id) are those of the extraction and no detail field
\* is added.
C22_FailedEnrichmentKeepsCandidate ==
    [][(HandlesRelation /\ IssuedNow # <<>> /\ ~IssuedNow[1].got_details) =>
          /\ AppendsOne
          /\ LET extracted == ExtractRepoFromPrUrl(relations[lidx].url)
             IN  /\ Appended.relation_type = Lower(relations[lidx].rel)
                 /\ Appended.url = relations[lidx].url
                 /\ Appended.repository = extracted.repository
                 /\ Appended.pr_number = extracted.pr_number
                 /\ Appended.platform = extracted.platform
                 /\ Appended.full_repo_path = extracted.full_repo_path
                 /\ Appended.repository_id = extracted.repository_id
                 /\ Appended.commit_id = extracted.commit_id
                 /\ Appended.details = "none"]_vars

\* the first relation is an Azure DevOps pull request whose detail request
\* failed, and its record is in the list
C22_Witness ==
    /\ lidx > 1
    /\ Len(detail_fetches) > 0
    /\ detail_fetches[1] = [relation |-> 1, kind |-> "pr", got_details |-> FALSE]
    /\ relations[1].url = AzureGitPrUrl
    /\ Len(pr_links) > 0
    /\ pr_links[1].platform = "Azure DevOps" /\ pr_links[1].details = "none"

\* C26 as stated: a detail request is issued only for an accepted candidate
\* whose platform is Azure DevOps, and at most one per candidate; a
\* candidate of platform GitHub or unknown causes no detail request.
C26_DetailFetchOnlyForAzureDevOps ==
    /\ \A k \in 1 .. Len(detail_fetches) :
          /\ IsPrLink(Lower(relations[detail_fetches[k].relation].rel),
                      relations[detail_fetches[k].relation].url)
          /\ ExtractRepoFromPrUrl(relations[detail_fetches[k].relation].url).platform
                = "Azure DevOps"
    /\ \A k, l \in 1 .. Len(detail_fetches) :
          detail_fetches[k].relation = detail_fetches[l].relation => k = l

\* ---- first match over the rules ----

\* what the highest-priority rule a URL matches extracts from it: the GitHub
\* pull request path, the internal pull request scheme, the internal commit
\* scheme, the two vendor git PR paths; <<>> when the URL matches none
FirstMatch(url) ==
    LET github == GithubPullFrom(url, 1)
        pull == VstfsMatchFrom(url, VstfsGitHubPullRequest, DigitChars, 1)
        commit == VstfsMatchFrom(url, VstfsGitHubCommit, HexChars, 1)
    IN  IF github # <<>> THEN <<GithubResult(github[1], github[2], github[3])>>
        ELSE IF StartsWith(url, VstfsGitHubPullRequest) /\ pull # <<>>
        THEN <<PullRequestResult(pull[1], pull[2])>>
        ELSE IF StartsWith(url, VstfsGitHubCommit) /\ commit # <<>>
        THEN <<CommitResult(commit[1], commit[2])>>
        ELSE IF Contains(url, SlashGitSlash) /\ Contains(url, SlashPullRequestSlash)
        THEN <<AzureResult(url, SlashGitSlash, SlashPullRequestSlash)>>
        ELSE IF Contains(url, SlashRepositoriesSlash) /\ Contains(url, SlashPullRequestsCamelSlash)
        THEN <<AzureResult(url, SlashRepositoriesSlash, SlashPullRequestsCamelSlash)>>
        ELSE <<>>

\* C25: each relation yields at most one record, and the platform,
\* repository and reference id of the record are those of the
\* highest-priority rule the relation's URL matches (a URL matching both the
\* GitHub pull request rule and the vendor git PR rule gives a GitHub link).
C25_FirstMatchWins ==
    [][HandlesRelation =>
          /\ Len(pr_links') <= Len(pr_links) + 1
          /\ SubSeq(pr_links', 1, Len(pr_links)) = pr_links
          /\ (AppendsOne /\ FirstMatch(relations[lidx].url) # <<>>) =>
                LET rule == FirstMatch(relations[lidx].url)[1]
                IN  /\ Appended.platform = rule.platform
                    /\ Appended.repository = rule.repository
                    /\ Appended.pr_number = rule.pr_number]_vars

\* ---- the relation fetches in batches ----

\* the links of the work items k .. Len(work_item_ids), in input order, a
\* work item whose relation fetch fails giving none
RECURSIVE LinksFrom(_)
LinksFrom(k) ==
    IF k > Len(work_item_ids) THEN <<>>
    ELSE (IF work_item_ids[k] \in failing THEN <<>>
          ELSE [j \in 1 .. Len(LinksFound(work_item_ids[k])) |->
                   <<work_item_ids[k], LinksFound(work_item_ids[k])[j]>>])
         \o LinksFrom(k + 1)

BatchesRun == { visit_log[k].batch : k \in 1 .. Len(visit_log) }

\* what holds of a call that has returned
BatchCallDone ==
    /\ Len(visit_log) = Len(work_item_ids)
    /\ \A k \in 1 .. Len(visit_log) : visit_log[k].id = work_item_ids[k]
    /\ \A k \in 1 .. Len(visit_log) - 1 :
          visit_log[k + 1].batch \in {visit_log[k].batch, visit_log[k].batch + 1}
    /\ \A b \in BatchesRun :
          Cardinality({ k \in 1 .. Len(visit_log) : visit_log[k].batch = b }) <= 10
    /\ pauses = Cardinality(BatchesRun)
    /\ all_pr_links = LinksFrom(1)

\* C23: the call visits every input id exactly once, in input order, in
\* consecutive batches of at most 10 with a pause after each batch, and
\* always returns; a work item whose relation fetch fails gives no links and
\* the links of every other work item are returned as they are.
C23_BatchesVisitAllAndTerminate ==
    /\ [](bpc = "done" => BatchCallDone)
    /\ [](\A k \in 1 .. Len(visit_log) : visit_log[k].batch <= pauses + 1)
    /\ <>(bpc = "done")

\* a returned call on more than 10 work items, one of which has links and a
\* failing relation fetch, beside a work item whose links are returned
C23_Witness ==
    /\ bpc = "done"
    /\ Len(work_item_ids) > 10
    /\ pauses = 2
    /\ \E id \in failing : LinksFound(id) # <<>>
    /\ all_pr_links # <<>>

\* ---- the totals of one analysis ----

\* the links associated with the work items of the pass
AssociatedLinks ==
    UNION { { <<i, j>> : j \in 1 .. Len(associated[i]) } : i \in 1 .. Len(associated) }

CommitLinks ==
    { ij \in AssociatedLinks : StartsWith(associated[ij[1]][ij[2]].pr_number, CommitDash) }

\* C24: work_items_with_prs of get_analytics_summary, PR analysis enabled, is
\* the number of input work items whose relations produced at least one
\* link.
C24_WorkItemsWithPrsCountsLinkedItems ==
    summary_data.status = "success" =>
        summary_data.work_items_with_prs =
            Cardinality({ i \in 1 .. Len(item_relations) :
                            ExtractPrLinks(item_relations[i]) # <<>> })

\* C27: in the result of get_streamlined_analytics, total_commits is the
\* number of associated links that are commit links (reference id beginning
\* 'commit-') and total_pull_requests the number of the remaining links.
C27_TotalsSplitCommitsFromPullRequests ==
    stream_data.status = "success" =>
        /\ stream_data.total_commits = Cardinality(CommitLinks)
        /\ stream_data.total_pull_requests = Cardinality(AssociatedLinks \ CommitLinks)

\* C28: in the result of get_streamlined_analytics, total_repositories is
\* the number of entries of involved_repositories.
C28_TotalRepositoriesCountsInvolved ==
    stream_data.status = "success" =>
        stream_data.total_repositories = Cardinality(stream_data.involved_repositories)

\* ---- the repositories endpoint ----

\* C29: the answer of /api/azuredevops/repositories depends only on the
\* request's own parameters (and the vendor data): two requests with the
\* same parameters, omitted ones included, are answered for the same
\* organization, project and area path, whatever was requested before.
C29_RepositoriesAnswerDependsOnOwnParameters ==
    \A i, j \in 1 .. Len(served) :
        (/\ served[i].endpoint = "repositories"
         /\ served[j].endpoint = "repositories"
         /\ served[i].args = served[j].args)
        => served[i].answered_for = served[j].answered_for

\* ---- the storage lock ----

\* C30: every call of update_datadog_context, update_datadog_logs_context,
\* update_github_context, update_azuredevops_context, update_figma_context
\* or clear_context eventually returns, with the storage lock released.
C30_EveryLockingCallReturns ==
    \A t \in Threads :
        (callers[t].method \in UpdateMethods \cup {"clear_context"})
            ~> (callers[t].pc = "idle" /\ lock # t)

====
